---- MODULE Spec2Model ----
(***************************************************************************)
(* WxFixBoot: operating-system detection (get_oss), the filesystem-check   *)
(* gate (find_checkable_file_systems) and the partition-to-OS matcher      *)
(* (partition_matches_os), as state machines over the shared DISK_INFO,    *)
(* OS_INFO and SYSTEM_INFO tables and the mount table of the machine.      *)
(*                                                                         *)
(* CoreTools, CoreStartupTools, DialogTools and os.path are collaborators  *)
(* outside the modelled files: every call to them is a nondeterministic    *)
(* choice over the results the call can give.                              *)
(***************************************************************************)
EXTENDS Integers, Sequences, FiniteSets, TLC

VARIABLES
    DISK_INFO,      \* Tools.dictionaries.DISK_INFO: device path -> entry
    OS_INFO,        \* Tools.dictionaries.OS_INFO: OS name -> record
    SYSTEM_INFO,    \* Tools.dictionaries.SYSTEM_INFO
    root_fs,        \* CoreTools.get_partition_mounted_at("/")
    mounts,         \* the mount table: set of <<device name, mount point>>
    pc,             \* position in the running function
    idx,            \* position of the for loop in the sorted key list
    loc,            \* local variables of the running loop iteration
    result,         \* what the running function returned
    mounts0,        \* history: the mount table when the function was called
    call,           \* the mount-manager call of the last step, with its exit code
    unmountFailed,  \* history: some CoreTools.unmount call returned non-zero
    env,            \* the machine: which fsck.<fs> modules `which` finds
    fc,             \* find_checkable_file_systems: its accumulating locals
    arg,            \* the arguments of the function called
    removed,        \* the directory os.rmdir removed in the last step, or None
    OPERATIONS      \* Tools.BackendTools.essentials.OPERATIONS

vars == <<DISK_INFO, OS_INFO, SYSTEM_INFO, root_fs, mounts, pc, idx, loc, result,
          mounts0, call, unmountFailed, env, fc, arg, removed, OPERATIONS>>

(***************************************************************************)
(* Bounds and value universes.                                             *)
(***************************************************************************)
\* Largest number of inventory entries.
MaxParts == 2

PathName == <<"/dev/sda1", "/dev/sda2", "/dev/sda3", "/dev/sda4">>
UUIDName == <<"1111-AAAA", "2222-BBBB", "3333-CCCC", "4444-DDDD">>

Paths == {PathName[i] : i \in 1..MaxParts}

\* A device name that is no inventory key: an LVM alias such as
\* /dev/mapper/<vg>-<lv>.
AliasName == "/dev/mapper/vg-root"

\* Python's None, as a value no probe returns as text.
None == "None"

Rank(p) == CHOOSE i \in 1..Len(PathName) : PathName[i] = p

\* keys = list(DISK_INFO.keys()); keys.sort()
RECURSIVE SortKeys(_)
SortKeys(S) ==
    IF S = {} THEN <<>>
    ELSE LET m == CHOOSE p \in S : \A q \in S : Rank(p) <= Rank(q)
         IN  <<m>> \o SortKeys(S \ {m})

EmptyTable == [n \in {} |-> {}]

\* table[key] = value
SetItem(table, key, value) ==
    [k \in (DOMAIN table) \cup {key} |-> IF k = key THEN value ELSE table[k]]

(***************************************************************************)
(* The mount manager (CoreTools), over the mount table.                    *)
(***************************************************************************)
\* Where a partition is mounted before WxFixBoot touches it.
PriorMountPoint(p) == "/media" \o p

is_mounted(p) == \E m \in mounts : m[1] = p

get_mount_point_of(p) == (CHOOSE m \in mounts : m[1] = p)[2]

any_mounted(S) == \E p \in S : is_mounted(p)

\* The mount table after a successful mount of p at mp.
Mounted(p, mp) == mounts \cup {<<p, mp>>}

\* The mount table after a successful unmount of x, a device or a mount point.
Unmounted(x) == {m \in mounts : m[1] # x /\ m[2] # x}

\* Exit codes of mount and umount: 0, or 32 (mount failure).
ExitCodes == {0, 32}

(***************************************************************************)
(* The inventory.                                                          *)
(***************************************************************************)
MacFileSystems == {"hfsplus", "hfs", "apfs"}
WindowsFileSystems == {"vfat", "ntfs", "exfat"}

\* An inventory entry.  Only LVM partitions carry an "Aliases" key, and
\* their "Product" is "LVM Partition".
Entry(type, fs, uuid, lvm, aliases) ==
    [Type |-> type, FileSystem |-> fs, UUID |-> uuid,
     Product |-> IF lvm THEN "LVM Partition" ELSE "Generic Disk",
     HasAliases |-> lvm, Aliases |-> IF lvm THEN aliases ELSE {}]

\* The prefixes of the key list: inventories of 0..MaxParts entries.
KeySets == {{PathName[i] : i \in 1..n} : n \in 0..MaxParts}

(***************************************************************************)
(* get_oss: values the probes can return.                                  *)
(***************************************************************************)
\* Output of the distro probe, character by character.
DistroOutputs == {<<>>, <<" ", "\n">>, <<"U", "\n">>}

\* temp.replace('\n', '')
RemoveNewlines(text) == SelectSeq(text, LAMBDA c : c # "\n")

\* The characters of a text as one string.
RECURSIVE Join(_)
Join(text) == IF text = <<>> THEN "" ELSE Head(text) \o Join(Tail(text))

\* str.isspace(): at least one character, all of them whitespace.
IsSpace(text) ==
    text # <<>> /\ \A i \in 1..Len(text) : text[i] \in {" ", "\n", "\t"}

\* CoreStartupTools.determine_os_architecture
ArchResults == {None, "x86_64"}
\* CoreStartupTools.get_os_name_with_lsb
LsbResults == {None, "U"}
\* CoreStartupTools.ask_for_os_name
AskResults == {None, "F"}
\* CoreStartupTools.determine_package_manager
PackageManagerResults == {"apt-get", "dnf", "Unknown"}
\* CoreStartupTools.get_fstab_info: (RawFSTabInfo, EFIPartition, BootPartition)
FstabResults == {<<<<"UUID=1111-AAAA /boot/efi vfat">>, PathName[1], "Unknown">>}

NoLocals ==
    [partition |-> None, mount_point |-> None, was_mounted |-> FALSE,
     chroot |-> FALSE, is_current_os |-> FALSE,
     os_name |-> None, os_arch |-> None, package_manager |-> None,
     signature |-> FALSE, calls |-> <<>>, returns |-> <<>>, versions |-> <<>>,
     cmd |-> None, apt_cmd |-> None, dnf_cmd |-> None, args |-> <<>>]

NoOS == [Name |-> None]

keys == SortKeys(DOMAIN DISK_INFO)

partition == keys[idx]

InLoop == pc = "loop" /\ idx <= Len(keys)

\* The temporary mount point get_oss mounts a partition at.
TempMountPoint(p) == "/mnt/wxfixboot/mountpoints" \o p

\* The record with its Partition field left unknown.
ForeignRecord_NoPartition(os_name, p, package_manager) ==
    [Name |-> os_name, IsCurrentOS |-> FALSE, Arch |-> "Unknown",
     Partition |-> "Unknown", PackageManager |-> package_manager,
     RawFSTabInfo |-> <<"Unknown">>, EFIPartition |-> "Unknown",
     BootPartition |-> "Unknown"]

\* The record get_oss stores for Mac OS X and for Windows.
ForeignRecord(os_name, p, package_manager) ==
    [Name |-> os_name, IsCurrentOS |-> FALSE, Arch |-> "Unknown",
     Partition |-> p, PackageManager |-> package_manager,
     RawFSTabInfo |-> <<"Unknown">>, EFIPartition |-> "Unknown",
     BootPartition |-> "Unknown"]

\* continue / the end of the loop body: on to the next key.
NextEntry ==
    /\ idx' = idx + 1
    /\ pc' = "loop"
    /\ loc' = NoLocals

\* break
BreakLoop ==
    /\ pc' = "return"
    /\ loc' = NoLocals
    /\ UNCHANGED idx

Frame == UNCHANGED <<DISK_INFO, root_fs, mounts0, env, fc, arg, OPERATIONS>>

\* No os.rmdir in this step.
NoRmdir == removed' = None

(***************************************************************************)
(* get_oss.                                                                *)
(***************************************************************************)
\* The device test against a type name no entry has.
IsDevice_WrongTypeName(p) == DISK_INFO[p].Type = "Disk"

\* if DISK_INFO[partition]["Type"] == "Device": continue
IsDevice(p) == DISK_INFO[p].Type = "Device"

FileSystemOf(p) == DISK_INFO[p].FileSystem

IsMacEntry(p) == ~IsDevice(p) /\ FileSystemOf(p) \in MacFileSystems

IsWindowsEntry(p) ==
    ~IsDevice(p) /\ FileSystemOf(p) \notin MacFileSystems
                 /\ FileSystemOf(p) \in WindowsFileSystems

IsLinuxEntry(p) ==
    ~IsDevice(p) /\ FileSystemOf(p) \notin MacFileSystems
                 /\ FileSystemOf(p) \notin WindowsFileSystems

\* No mount-manager call in this step.
NoCall == <<"none", "", 0>>

\* The loop skips an entry of type Device.
SkipDevice ==
    /\ InLoop
    /\ IsDevice(partition)
    /\ NextEntry
    /\ call' = NoCall
    /\ UNCHANGED <<OS_INFO, SYSTEM_INFO, mounts, result, unmountFailed>>
    /\ NoRmdir
    /\ Frame

\* continue where get_oss has break.
OnUnmountFailure_Continue == NextEntry

\* The unmount tried again where get_oss has break.
OnUnmountFailure_Retry == UNCHANGED <<pc, loc, idx>>

\* What get_oss does when an unmount fails: break.
OnUnmountFailure == BreakLoop

\* break where get_oss has continue.
OnMountFailure_Break == BreakLoop

\* What get_oss does when a mount fails: continue.
OnMountFailure == NextEntry

\* "Check if we need to mount the partition", as the Mac and the Windows
\* branch do it.
MountIfNeeded(p) ==
    IF is_mounted(p)
    THEN /\ loc' = [NoLocals EXCEPT !.partition = p,
                                    !.mount_point = get_mount_point_of(p),
                                    !.was_mounted = FALSE]
         /\ pc' = "probe"
         /\ call' = NoCall
         /\ UNCHANGED <<idx, mounts>>
    ELSE \E rc \in ExitCodes :
            /\ call' = <<"mount", p, rc>>
            /\ IF rc # 0
               THEN OnMountFailure /\ UNCHANGED mounts
               ELSE /\ mounts' = Mounted(p, TempMountPoint(p))
                    /\ loc' = [NoLocals EXCEPT !.partition = p,
                                               !.mount_point = TempMountPoint(p),
                                               !.was_mounted = TRUE]
                    /\ pc' = "probe"
                    /\ UNCHANGED idx

\* "Unmount the filesystem if needed", as the Mac and the Windows branch do it.
UnmountIfNeeded ==
    IF loc.was_mounted
    THEN \E rc \in ExitCodes :
            /\ call' = <<"unmount", loc.mount_point, rc>>
            /\ IF rc # 0
               THEN /\ OnUnmountFailure
                    /\ unmountFailed' = TRUE
                    /\ UNCHANGED mounts
               ELSE /\ mounts' = Unmounted(loc.mount_point)
                    /\ NextEntry
                    /\ UNCHANGED unmountFailed
    ELSE /\ NextEntry
         /\ call' = NoCall
         /\ UNCHANGED <<mounts, unmountFailed>>

\* The kernel test that takes the mount point itself for a kernel.
MacKernelFound_Always(mach_kernel, library_kernel) == TRUE

\* os.path.exists(mount_point+"/mach_kernel")
\*   or os.path.exists(mount_point+"/System/Library/Kernels/kernel")
MacKernelFound(mach_kernel, library_kernel) == mach_kernel \/ library_kernel

MacMount ==
    /\ InLoop
    /\ IsMacEntry(partition)
    /\ MountIfNeeded(partition)
    /\ UNCHANGED <<OS_INFO, SYSTEM_INFO, result, unmountFailed>>
    /\ NoRmdir
    /\ Frame

MacProbe ==
    /\ pc = "probe"
    /\ IsMacEntry(loc.partition)
    /\ \E mach_kernel \in BOOLEAN, library_kernel \in BOOLEAN :
          LET os_name == "Mac OS X (" \o loc.partition \o ")"
              found == MacKernelFound(mach_kernel, library_kernel)
          IN  /\ OS_INFO' = IF found
                            THEN SetItem(OS_INFO, os_name,
                                         ForeignRecord(os_name, loc.partition,
                                                       "Mac App Store"))
                            ELSE OS_INFO
              /\ loc' = [loc EXCEPT !.os_name = os_name,
                                    !.signature = mach_kernel \/ library_kernel,
                                    !.calls = <<"exists">>]
    /\ pc' = "unmount"
    /\ call' = NoCall
    /\ UNCHANGED <<SYSTEM_INFO, mounts, idx, result, unmountFailed>>
    /\ NoRmdir
    /\ Frame

MacUnmount ==
    /\ pc = "unmount"
    /\ IsMacEntry(loc.partition)
    /\ UnmountIfNeeded
    /\ UNCHANGED <<OS_INFO, SYSTEM_INFO, result>>
    /\ NoRmdir
    /\ Frame

\* The marker test that takes the mount point itself for a marker.
WindowsMarkerFound_Always(winnt, windows, upper) == TRUE

\* os.path.isdir of mount_point+"/WinNT", "/Windows", "/WINDOWS"
WindowsMarkerFound(winnt, windows, upper) == winnt \/ windows \/ upper

\* The cascade of has_windows_* probes; v[i] is the result of the i-th.
WindowsVersionNames ==
    <<"Windows 95/98/ME", "Windows XP", "Windows Vista", "Windows 7",
      "Windows 8/8.1", "Windows 10">>

\* The cascade in which the last probe that succeeds names the OS.
WindowsName_LastWins(v) ==
    IF \E i \in 1..Len(WindowsVersionNames) : v[i]
    THEN WindowsVersionNames[CHOOSE i \in 1..Len(WindowsVersionNames) :
                                v[i] /\ \A j \in (i + 1)..Len(WindowsVersionNames) : ~v[j]]
    ELSE "Windows"

WindowsName(v) ==
    IF \E i \in 1..Len(WindowsVersionNames) : v[i]
    THEN WindowsVersionNames[CHOOSE i \in 1..Len(WindowsVersionNames) :
                                v[i] /\ \A j \in 1..(i - 1) : ~v[j]]
    ELSE "Windows"

\* Results of the six has_windows_* probes: none succeeds, one does, or
\* two do.
WindowsVersionProbes ==
    {[i \in 1..Len(WindowsVersionNames) |-> i \in S] : S \in {{}, {6}, {2, 6}}}

\* Every result of the six has_windows_* probes.
AllWindowsVersionProbes == [1..Len(WindowsVersionNames) -> BOOLEAN]

WindowsMount ==
    /\ InLoop
    /\ IsWindowsEntry(partition)
    /\ MountIfNeeded(partition)
    /\ UNCHANGED <<OS_INFO, SYSTEM_INFO, result, unmountFailed>>
    /\ NoRmdir
    /\ Frame

\* The marker test, the cascade and the record, for the probe results of V.
WindowsProbeWith(V) ==
    /\ pc = "probe"
    /\ IsWindowsEntry(loc.partition)
    /\ \E winnt \in BOOLEAN, windows \in BOOLEAN, upper \in BOOLEAN, v \in V :
          LET found == WindowsMarkerFound(winnt, windows, upper)
              os_name == WindowsName(v) \o " (" \o loc.partition \o ")"
          IN  /\ OS_INFO' = IF found
                            THEN SetItem(OS_INFO, os_name,
                                         ForeignRecord(os_name, loc.partition,
                                                       "Windows Installer"))
                            ELSE OS_INFO
              /\ loc' = IF found
                        THEN [loc EXCEPT !.os_name = os_name,
                                         !.signature = winnt \/ windows \/ upper,
                                         !.calls = <<"isdir", "has_windows">>,
                                         !.versions = v]
                        ELSE [loc EXCEPT !.signature = winnt \/ windows \/ upper,
                                         !.calls = <<"isdir">>]
    /\ pc' = "unmount"
    /\ call' = NoCall
    /\ UNCHANGED <<SYSTEM_INFO, mounts, idx, result, unmountFailed>>
    /\ NoRmdir
    /\ Frame

WindowsProbe == WindowsProbeWith(WindowsVersionProbes)

WindowsProbeFull == WindowsProbeWith(AllWindowsVersionProbes)

WindowsUnmount ==
    /\ pc = "unmount"
    /\ IsWindowsEntry(loc.partition)
    /\ UnmountIfNeeded
    /\ UNCHANGED <<OS_INFO, SYSTEM_INFO, result>>
    /\ NoRmdir
    /\ Frame

\* root_fs_is_alias: the root filesystem is one of the aliases of p.
RootIsAlias(p) == DISK_INFO[p].HasAliases /\ root_fs \in DISK_INFO[p].Aliases

\* if partition == root_fs or root_fs_is_alias
IsLiveRoot(p) == p = root_fs \/ RootIsAlias(p)

\* The three probe commands of the Linux branch, as they are run directly.
DistroCmd == "python -c platform.linux_distribution"
AptCmd == "which apt-get"
DnfCmd == "which dnf"

\* The command left as it is, with no chroot in front.
Chrooted_NotAtAll(mount_point, command) == command

\* "chroot "+mount_point+" "+command
Chrooted(mount_point, command) == "chroot " \o mount_point \o " " \o command

LinuxBegin ==
    /\ InLoop
    /\ IsLinuxEntry(partition)
    /\ IF IsLiveRoot(partition)
       THEN /\ loc' = [NoLocals EXCEPT !.partition = partition,
                                       !.mount_point = "",
                                       !.chroot = FALSE,
                                       !.is_current_os = TRUE,
                                       !.cmd = DistroCmd,
                                       !.apt_cmd = AptCmd,
                                       !.dnf_cmd = DnfCmd]
            /\ pc' = "probe"
            /\ call' = NoCall
            /\ UNCHANGED <<idx, mounts>>
       ELSE \E rc \in ExitCodes :
               /\ call' = <<"mount", partition, rc>>
               /\ IF rc # 0
                  THEN OnMountFailure /\ UNCHANGED mounts
                  ELSE /\ mounts' = Mounted(partition, TempMountPoint(partition))
                       /\ loc' = [NoLocals EXCEPT
                                     !.partition = partition,
                                     !.mount_point = TempMountPoint(partition),
                                     !.chroot = TRUE,
                                     !.is_current_os = FALSE,
                                     !.cmd = Chrooted(TempMountPoint(partition),
                                                      DistroCmd),
                                     !.apt_cmd = Chrooted(TempMountPoint(partition),
                                                          AptCmd),
                                     !.dnf_cmd = Chrooted(TempMountPoint(partition),
                                                          DnfCmd)]
                       /\ pc' = "probe"
                       /\ UNCHANGED idx
    /\ UNCHANGED <<OS_INFO, SYSTEM_INFO, result, unmountFailed>>
    /\ NoRmdir
    /\ Frame

\* What the distro probe gave: "failed" for a non-zero exit code, its output
\* without newlines otherwise.
DistroResult(retval, text) == IF retval # 0 THEN "failed" ELSE Join(text)

\* The fallback that is tried whatever the architecture probe gave.
NeedsNameFallback_IgnoringArch(retval, text, os_arch) ==
    retval # 0 \/ text = <<>> \/ IsSpace(text)

\* if (retval != 0 or os_name == "" or os_name.isspace()) and os_arch != None
NeedsNameFallback(retval, text, os_arch) ==
    (retval # 0 \/ text = <<>> \/ IsSpace(text)) /\ os_arch # None

\* The condition without its architecture conjunct.
ShouldStore_IgnoringArch(os_name, os_arch, package_manager) ==
    os_name # None /\ package_manager # "Unknown"

\* if os_name != None and os_arch != None and package_manager != "Unknown"
ShouldStore(os_name, os_arch, package_manager) ==
    os_name # None /\ os_arch # None /\ package_manager # "Unknown"

\* The snapshot taken for every record stored.
WritesCurrentOS_EveryRecord(store, chroot) == store

\* if chroot is False: SYSTEM_INFO["CurrentOS"] = OS_INFO[os_name].copy()
\* inside the if that stores the record.
WritesCurrentOS(store, chroot) == store /\ chroot = FALSE

LinuxProbe ==
    /\ pc = "probe"
    /\ IsLinuxEntry(loc.partition)
    /\ \E retval \in {0, 1}, temp \in DistroOutputs, os_arch \in ArchResults,
          lsb \in LsbResults, asked \in AskResults,
          package_manager \in PackageManagerResults, fstab \in FstabResults :
          LET text == RemoveNewlines(temp)
              fallback == NeedsNameFallback(retval, text, os_arch)
              os_name == IF fallback
                         THEN (IF lsb = None THEN asked ELSE lsb)
                         ELSE Join(text)
              store == ShouldStore(os_name, os_arch, package_manager)
              record == [Name |-> os_name,
                         IsCurrentOS |-> loc.is_current_os,
                         Arch |-> os_arch,
                         Partition |-> loc.partition,
                         PackageManager |-> package_manager,
                         RawFSTabInfo |-> fstab[1],
                         EFIPartition |-> fstab[2],
                         BootPartition |-> fstab[3]]
              named == \/ retval = 0 /\ text # <<>> /\ ~IsSpace(text)
                       \/ fallback /\ (lsb # None \/ asked # None)
          IN  /\ OS_INFO' = IF store THEN SetItem(OS_INFO, os_name, record)
                            ELSE OS_INFO
              /\ SYSTEM_INFO' = IF WritesCurrentOS(store, loc.chroot)
                                THEN [SYSTEM_INFO EXCEPT !.CurrentOS = record]
                                ELSE SYSTEM_INFO
              /\ loc' = [loc EXCEPT
                            !.os_name = os_name, !.os_arch = os_arch,
                            !.package_manager = package_manager,
                            !.signature = named,
                            !.calls = <<"distro", "arch">>
                                \o (IF fallback THEN <<"lsb">> ELSE <<>>)
                                \o (IF fallback /\ lsb = None THEN <<"ask">> ELSE <<>>)
                                \o <<"package_manager">>
                                \o (IF store THEN <<"fstab">> ELSE <<>>),
                            !.returns = <<DistroResult(retval, text), os_arch>>
                                \o (IF fallback THEN <<lsb>> ELSE <<>>)
                                \o (IF fallback /\ lsb = None THEN <<asked>> ELSE <<>>)
                                \o <<package_manager>>
                                \o (IF store THEN <<"fstab">> ELSE <<>>),
                            !.args = <<<<loc.cmd>>, <<loc.mount_point>>>>
                                \o (IF fallback
                                    THEN <<<<loc.partition, loc.mount_point>>>>
                                    ELSE <<>>)
                                \o (IF fallback /\ lsb = None
                                    THEN <<<<loc.partition>>>> ELSE <<>>)
                                \o <<<<loc.apt_cmd, loc.dnf_cmd>>>>
                                \o (IF store THEN <<<<loc.mount_point, os_name>>>>
                                    ELSE <<>>)]
    /\ pc' = "unmount"
    /\ call' = NoCall
    /\ UNCHANGED <<mounts, idx, result, unmountFailed>>
    /\ NoRmdir
    /\ Frame

\* The Linux branch without its os.rmdir.
RemovedAfterUnmount_Nothing(mount_point) == None

\* os.rmdir(mount_point)
RemovedAfterUnmount(mount_point) == mount_point

\* "Unmount the filesystem" and "Remove the temporary mountpoint".
LinuxUnmount ==
    /\ pc = "unmount"
    /\ IsLinuxEntry(loc.partition)
    /\ IF loc.chroot
       THEN \E rc \in ExitCodes :
               /\ call' = <<"unmount", loc.mount_point, rc>>
               /\ IF rc # 0
                  THEN /\ OnUnmountFailure
                       /\ unmountFailed' = TRUE
                       /\ removed' = None
                       /\ UNCHANGED mounts
                  ELSE /\ mounts' = Unmounted(loc.mount_point)
                       /\ removed' = RemovedAfterUnmount(loc.mount_point)
                       /\ NextEntry
                       /\ UNCHANGED unmountFailed
       ELSE /\ NextEntry
            /\ call' = NoCall
            /\ removed' = None
            /\ UNCHANGED <<mounts, unmountFailed>>
    /\ UNCHANGED <<OS_INFO, SYSTEM_INFO, result>>
    /\ Frame

\* The test with > where get_oss has >=.
ReturnValue_OffByOne(os_info) ==
    IF Cardinality(DOMAIN os_info) > 1 THEN "OS_INFO, SYSTEM_INFO"
    ELSE "False, False"

\* if len(OS_INFO) >= 1: return OS_INFO, SYSTEM_INFO
\* return (False, False)
ReturnValue(os_info) ==
    IF Cardinality(DOMAIN os_info) >= 1 THEN "OS_INFO, SYSTEM_INFO"
    ELSE "False, False"

Return ==
    /\ \/ pc = "loop" /\ idx > Len(keys)
       \/ pc = "return"
    /\ result' = ReturnValue(OS_INFO)
    /\ pc' = "done"
    /\ call' = NoCall
    /\ UNCHANGED <<OS_INFO, SYSTEM_INFO, mounts, idx, loc, unmountFailed>>
    /\ NoRmdir
    /\ Frame

(***************************************************************************)
(* The detection run: get_oss called once on a fresh process.              *)
(***************************************************************************)
\* Entries the detector tells apart: <<Type, FileSystem, LVM partition>>.
DetectorKinds ==
    ({"Device"} \X {"ntfs", "ext4"} \X {FALSE})
    \cup ({"Partition"} \X {"hfsplus", "ntfs"} \X {FALSE})
    \cup ({"Partition"} \X {"ext4"} \X BOOLEAN)

NoGate == [missing_fsck_modules |-> <<>>, do_not_check_list |-> <<>>,
           filesystems_to_check |-> EmptyTable, dialog |-> <<>>]

NoArg == [partition |-> None, os |-> None]

InitialSystemInfo(live) ==
    [IsLiveDisk |-> live, CurrentOS |-> NoOS,
     DisableBootloaderOperations |-> FALSE,
     DisableBootloaderOperationsBecause |-> <<>>]

InitDetect ==
    /\ \E ks \in KeySets : \E kind \in [ks -> DetectorKinds] :
          DISK_INFO = [p \in ks |->
                          Entry(kind[p][1], kind[p][2], UUIDName[Rank(p)],
                                kind[p][3], {AliasName})]
    /\ root_fs \in Paths \cup {AliasName}
    /\ \E M \in SUBSET {p \in DOMAIN DISK_INFO : ~IsDevice(p) /\ p # root_fs} :
          mounts = {<<root_fs, "/">>} \cup {<<p, PriorMountPoint(p)>> : p \in M}
    /\ mounts0 = mounts
    /\ OS_INFO = EmptyTable
    /\ SYSTEM_INFO = InitialSystemInfo(FALSE)
    /\ pc = "loop"
    /\ idx = 1
    /\ loc = NoLocals
    /\ result = None
    /\ call = NoCall
    /\ unmountFailed = FALSE
    /\ env = {}
    /\ fc = NoGate
    /\ arg = NoArg
    /\ removed = None
    /\ OPERATIONS = <<>>

NextDetect ==
    \/ SkipDevice
    \/ MacMount \/ MacProbe \/ MacUnmount
    \/ WindowsMount \/ WindowsProbe \/ WindowsUnmount
    \/ LinuxBegin \/ LinuxProbe \/ LinuxUnmount
    \/ Return

SpecDetect == InitDetect /\ [][NextDetect]_vars

(***************************************************************************)
(* The detection run over Windows-family partitions, with every result of  *)
(* the version probes.                                                     *)
(***************************************************************************)
InitWindows ==
    /\ InitDetect
    /\ \A p \in DOMAIN DISK_INFO : IsWindowsEntry(p)

NextWindows == WindowsMount \/ WindowsProbeFull \/ WindowsUnmount \/ Return

SpecWindows == InitWindows /\ [][NextWindows]_vars

(***************************************************************************)
(* find_missing_fsck_modules and find_checkable_file_systems.              *)
(***************************************************************************)
UnknownFileSystems == {"Unknown", "N/A"}

\* "which fsck.<fs>" returns 0 exactly for the modules in env.
RECURSIVE MissingIn(_)
MissingIn(disks) ==
    IF disks = <<>> THEN <<>>
    ELSE LET fs == FileSystemOf(Head(disks))
         IN  (IF fs \notin UnknownFileSystems /\ fs \notin env
              THEN <<"fsck." \o fs>> ELSE <<>>) \o MissingIn(Tail(disks))

find_missing_fsck_modules == MissingIn(keys)

InList(x, list) == \E i \in 1..Len(list) : list[i] = x

\* The gate without its first rule.
CheckerMissing_Never(disk) == FALSE

\* if "fsck."+DISK_INFO[disk]["FileSystem"] in missing_fsck_modules
CheckerMissing(disk) ==
    InList("fsck." \o FileSystemOf(disk), fc.missing_fsck_modules)

\* elif SYSTEM_INFO["IsLiveDisk"] is False and disk == root_fs
IsBusyRoot(disk) == SYSTEM_INFO.IsLiveDisk = FALSE /\ disk = root_fs

\* The LVM test that looks at the key and not at the aliases.
IsRootLvmAlias_KeyOnly(disk) ==
    DISK_INFO[disk].Product = "LVM Partition" /\ root_fs = disk

\* elif DISK_INFO[disk]["Product"] == "LVM Partition"
\*      and root_fs in DISK_INFO[disk]["Aliases"]
IsRootLvmAlias(disk) ==
    DISK_INFO[disk].Product = "LVM Partition" /\ root_fs \in DISK_INFO[disk].Aliases

\* if DISK_INFO[disk]["FileSystem"] in ("Unknown", "N/A")
IsUnrecognised(disk) == FileSystemOf(disk) \in UnknownFileSystems

\* The LVM test that does not look at the mount state of the aliases.
IsLvmWithNoAliasMounted_AnyLvm(disk) == DISK_INFO[disk].Product = "LVM Partition"

\* elif DISK_INFO[disk]["Product"] == "LVM Partition"
\*      and CoreTools.any_mounted(DISK_INFO[disk]["Aliases"]) is False
IsLvmWithNoAliasMounted(disk) ==
    DISK_INFO[disk].Product = "LVM Partition" /\ ~any_mounted(DISK_INFO[disk].Aliases)

Skip(mount_point, reason) ==
    [check_this_fs |-> FALSE, remount_fs_after |-> FALSE,
     mount_point |-> mount_point, reason |-> reason, unmount |-> FALSE]

Check(mount_point, remount, unmount) ==
    [check_this_fs |-> TRUE, remount_fs_after |-> remount,
     mount_point |-> mount_point, reason |-> None, unmount |-> unmount]

\* The decision with the filesystem test moved before the two live-root tests.
Decide_UnrecognisedFirst(disk, rc) ==
    IF CheckerMissing(disk) THEN Skip("None", "filesystem checker was not found.")
    ELSE IF IsUnrecognised(disk) THEN Skip("None", "filesystem was not recognised.")
    ELSE IF IsBusyRoot(disk) THEN Skip("/", "disk is busy.")
    ELSE IF IsRootLvmAlias(disk) THEN Skip("/", "disk is busy.")
    ELSE IF is_mounted(disk) = FALSE THEN Check("None", FALSE, FALSE)
    ELSE IF IsLvmWithNoAliasMounted(disk) THEN Check("None", FALSE, FALSE)
    ELSE IF rc # 0
         THEN [Skip(get_mount_point_of(disk), "disk is busy.") EXCEPT !.unmount = TRUE]
         ELSE Check(get_mount_point_of(disk), TRUE, TRUE)

\* The decision for one non-device entry; rc is the exit code CoreTools.unmount
\* gives if it is called.
Decide(disk, rc) ==
    IF CheckerMissing(disk) THEN Skip("None", "filesystem checker was not found.")
    ELSE IF IsBusyRoot(disk) THEN Skip("/", "disk is busy.")
    ELSE IF IsRootLvmAlias(disk) THEN Skip("/", "disk is busy.")
    ELSE IF IsUnrecognised(disk) THEN Skip("None", "filesystem was not recognised.")
    ELSE IF is_mounted(disk) = FALSE THEN Check("None", FALSE, FALSE)
    ELSE IF IsLvmWithNoAliasMounted(disk) THEN Check("None", FALSE, FALSE)
    ELSE IF rc # 0
         THEN [Skip(get_mount_point_of(disk), "disk is busy.") EXCEPT !.unmount = TRUE]
         ELSE Check(get_mount_point_of(disk), TRUE, TRUE)

\* The gate that forgets the UUIDs of the inventory as it goes.
GateFrame_ForgettingUUIDs ==
    /\ DISK_INFO' = [p \in DOMAIN DISK_INFO |->
                        [DISK_INFO[p] EXCEPT !.UUID = "Unknown"]]
    /\ UNCHANGED <<OS_INFO, SYSTEM_INFO, root_fs, mounts0, loc, unmountFailed,
                   env, arg, removed, OPERATIONS>>

GateFrame == UNCHANGED <<DISK_INFO, OS_INFO, SYSTEM_INFO, root_fs, mounts0, loc,
                         unmountFailed, env, arg, removed, OPERATIONS>>

\* The setup: the lists, root_fs and the missing fsck modules.
GateStart ==
    /\ pc = "gate_start"
    /\ fc' = [missing_fsck_modules |-> find_missing_fsck_modules,
              do_not_check_list |-> <<>>,
              filesystems_to_check |-> EmptyTable,
              dialog |-> <<>>]
    /\ idx' = 1
    /\ pc' = "gate_loop"
    /\ call' = NoCall
    /\ UNCHANGED <<mounts, result>>
    /\ GateFrame

InGateLoop == pc = "gate_loop" /\ idx <= Len(keys)

\* "Ignore all devices."
GateDevice ==
    /\ InGateLoop
    /\ IsDevice(partition)
    /\ idx' = idx + 1
    /\ call' = NoCall
    /\ UNCHANGED <<mounts, pc, result, fc>>
    /\ GateFrame

\* The entry put on the non-checkable list whatever was decided, besides
\* being stored for checking.
Store_ReportingAll(disk, d) ==
    [fc EXCEPT !.filesystems_to_check =
                  IF d.check_this_fs
                  THEN SetItem(@, disk, [Remount |-> d.remount_fs_after,
                                         MountPoint |-> d.mount_point])
                  ELSE @,
               !.do_not_check_list =
                  Append(@, <<disk, ", because the ",
                              IF d.check_this_fs THEN "disk is busy."
                              ELSE d.reason>>)]

\* if check_this_fs: "Add it to the dictionary for checking."
\* else: "Add it to the non-checkable list"
Store(disk, d) ==
    IF d.check_this_fs
    THEN [fc EXCEPT !.filesystems_to_check =
             SetItem(@, disk, [Remount |-> d.remount_fs_after,
                               MountPoint |-> d.mount_point])]
    ELSE [fc EXCEPT !.do_not_check_list =
             Append(@, <<disk, ", because the ", d.reason>>)]

\* One pass of the loop over a non-device entry.
GateClassify ==
    /\ InGateLoop
    /\ ~IsDevice(partition)
    /\ \E rc \in ExitCodes :
          LET disk == partition
              d == Decide(disk, rc)
          IN  /\ call' = IF d.unmount THEN <<"unmount", disk, rc>> ELSE NoCall
              /\ mounts' = IF d.unmount /\ rc = 0 THEN Unmounted(disk) ELSE mounts
              /\ fc' = Store(disk, d)
    /\ idx' = idx + 1
    /\ UNCHANGED <<pc, result>>
    /\ GateFrame

\* "Report uncheckable partitions": the dialog lists do_not_check_list if it
\* is not empty.  Then return filesystems_to_check.
GateReturn ==
    /\ pc = "gate_loop"
    /\ idx > Len(keys)
    /\ fc' = [fc EXCEPT !.dialog = IF fc.do_not_check_list # <<>>
                                   THEN fc.do_not_check_list ELSE <<>>]
    /\ result' = "filesystems_to_check"
    /\ pc' = "gate_done"
    /\ call' = NoCall
    /\ UNCHANGED <<mounts, idx>>
    /\ GateFrame

\* Entries the gate tells apart: <<Type, FileSystem, LVM partition>>.
GateKinds ==
    ({"Device"} \X {"ext4"} \X {FALSE})
    \cup ({"Partition"} \X {"ext4", "vfat", "Unknown"} \X BOOLEAN)

\* The fsck modules a machine may have.
FsckModules == {"ext4", "vfat"}

InitGate ==
    /\ \E ks \in KeySets : \E kind \in [ks -> GateKinds] :
          DISK_INFO = [p \in ks |->
                          Entry(kind[p][1], kind[p][2], UUIDName[Rank(p)],
                                kind[p][3], {AliasName})]
    /\ root_fs \in Paths \cup {AliasName}
    /\ \E M \in SUBSET (((DOMAIN DISK_INFO) \cup {AliasName}) \ {root_fs}) :
          mounts = {<<root_fs, "/">>} \cup {<<p, PriorMountPoint(p)>> : p \in M}
    /\ mounts0 = mounts
    /\ env \in SUBSET FsckModules
    /\ OS_INFO = EmptyTable
    /\ \E live \in BOOLEAN : SYSTEM_INFO = InitialSystemInfo(live)
    /\ pc = "gate_start"
    /\ idx = 1
    /\ loc = NoLocals
    /\ result = None
    /\ call = NoCall
    /\ unmountFailed = FALSE
    /\ fc = NoGate
    /\ arg = NoArg
    /\ removed = None
    /\ OPERATIONS = <<>>

NextGate == GateStart \/ GateDevice \/ GateClassify \/ GateReturn

SpecGate == InitGate /\ [][NextGate]_vars

(***************************************************************************)
(* partition_matches_os.                                                   *)
(***************************************************************************)
\* The test against the wrong spelling of the sentinel.
IsUnknownArgument_Lowercase(part) == part = "unknown"

\* if partition == "Unknown": return False
IsUnknownArgument(part) == part = "Unknown"

\* The arm without short-circuit: the lookup is made before the field is
\* tested.
MatchRole_EagerLookup(part, field) ==
    IF field \notin DOMAIN DISK_INFO
    THEN [raised |-> TRUE, value |-> FALSE, lookups |-> {field}]
    ELSE [raised |-> FALSE,
          value |-> field # "Unknown" /\ part \in {field, DISK_INFO[field].UUID},
          lookups |-> {field}]

\* The arm that compares with the device path only, never with the UUID.
MatchRole_PathOnly(part, field) ==
    IF field = "Unknown"
    THEN [raised |-> FALSE, value |-> FALSE, lookups |-> {}]
    ELSE IF field \notin DOMAIN DISK_INFO
    THEN [raised |-> TRUE, value |-> FALSE, lookups |-> {field}]
    ELSE [raised |-> FALSE, value |-> part = field, lookups |-> {field}]

\* One arm of the if/elif chain:
\*   OS_INFO[_os][role] != "Unknown"
\*   and partition in (OS_INFO[_os][role], DISK_INFO[OS_INFO[_os][role]]["UUID"])
\* with the inventory keys it looks up; a key that is not in DISK_INFO raises
\* KeyError.
MatchRole(part, field) ==
    IF field = "Unknown"
    THEN [raised |-> FALSE, value |-> FALSE, lookups |-> {}]
    ELSE IF field \notin DOMAIN DISK_INFO
    THEN [raised |-> TRUE, value |-> FALSE, lookups |-> {field}]
    ELSE [raised |-> FALSE,
          value |-> part \in {field, DISK_INFO[field].UUID},
          lookups |-> {field}]

\* The arms in the order root, boot, EFI; the first that matches or raises
\* ends the chain.
RECURSIVE MatchChain(_, _)
MatchChain(part, fields) ==
    IF fields = <<>>
    THEN [raised |-> FALSE, value |-> FALSE, lookups |-> {}]
    ELSE LET first == MatchRole(part, Head(fields))
             rest == MatchChain(part, Tail(fields))
         IN  IF first.raised \/ first.value THEN first
             ELSE [rest EXCEPT !.lookups = first.lookups \cup @]

partition_matches_os(part, os) ==
    IF IsUnknownArgument(part)
    THEN [raised |-> FALSE, value |-> FALSE, lookups |-> {}]
    ELSE MatchChain(part, <<OS_INFO[os].Partition, OS_INFO[os].BootPartition,
                            OS_INFO[os].EFIPartition>>)

\* A call of the matcher.
MatchCall ==
    /\ pc = "match"
    /\ \E part \in Paths \cup {UUIDName[i] : i \in 1..MaxParts} \cup {"Unknown"},
          os \in DOMAIN OS_INFO :
          /\ arg' = [partition |-> part, os |-> os]
          /\ result' = partition_matches_os(part, os)
    /\ UNCHANGED <<DISK_INFO, OS_INFO, SYSTEM_INFO, root_fs, mounts, pc, idx, loc,
                   mounts0, call, unmountFailed, env, fc, removed, OPERATIONS>>

\* The tables after a detection run: partitions with a known or an unknown
\* UUID, and one OS record whose partitions are inventory keys or "Unknown".
InitMatch ==
    /\ \E ks \in KeySets : \E known \in [ks -> BOOLEAN] :
          DISK_INFO = [p \in ks |->
                          Entry("Partition", "ext4",
                                IF known[p] THEN UUIDName[Rank(p)] ELSE "Unknown",
                                FALSE, {})]
    /\ \E root \in (DOMAIN DISK_INFO) \cup {"Unknown"},
          boot \in (DOMAIN DISK_INFO) \cup {"Unknown"},
          efi \in (DOMAIN DISK_INFO) \cup {"Unknown"} :
          OS_INFO = SetItem(EmptyTable, "U",
                            [Name |-> "U", IsCurrentOS |-> FALSE,
                             Arch |-> "x86_64", Partition |-> root,
                             PackageManager |-> "apt-get",
                             RawFSTabInfo |-> <<>>, EFIPartition |-> efi,
                             BootPartition |-> boot])
    /\ root_fs = AliasName
    /\ mounts = {<<root_fs, "/">>}
    /\ mounts0 = mounts
    /\ env = {}
    /\ SYSTEM_INFO = InitialSystemInfo(FALSE)
    /\ pc = "match"
    /\ idx = 1
    /\ loc = NoLocals
    /\ result = None
    /\ call = NoCall
    /\ unmountFailed = FALSE
    /\ fc = NoGate
    /\ arg = NoArg
    /\ removed = None
    /\ OPERATIONS = <<>>

NextMatch == MatchCall

SpecMatch == InitMatch /\ [][NextMatch]_vars

(***************************************************************************)
(* Properties of find_checkable_file_systems.                              *)
(***************************************************************************)
\* The entries that are the live root: by their path or by an alias.
LiveRootEntries ==
    {d \in DOMAIN DISK_INFO :
        d = root_fs \/ (DISK_INFO[d].HasAliases /\ root_fs \in DISK_INFO[d].Aliases)}

\* C1: when IsLiveDisk is false, no entry that is the live root, by its path
\* or through its alias set, is ever in filesystems_to_check.
C1_LiveRootNeverCheckable ==
    SYSTEM_INFO.IsLiveDisk = FALSE =>
        LiveRootEntries \cap DOMAIN fc.filesystems_to_check = {}

\* The gate has returned, off live media, over an inventory with an LVM
\* partition that has the live root among its aliases, whose checker is
\* installed, and it was skipped as busy while another entry was accepted.
C1_Witness ==
    /\ pc = "gate_done"
    /\ SYSTEM_INFO.IsLiveDisk = FALSE
    /\ \E d \in DOMAIN DISK_INFO :
          /\ ~IsDevice(d)
          /\ d # root_fs
          /\ root_fs \in DISK_INFO[d].Aliases
          /\ FileSystemOf(d) \in env
          /\ InList(<<d, ", because the ", "disk is busy.">>, fc.do_not_check_list)
    /\ DOMAIN fc.filesystems_to_check # {}

(***************************************************************************)
(* Properties of get_oss.                                                  *)
(***************************************************************************)
CurrentRecords == {n \in DOMAIN OS_INFO : OS_INFO[n].IsCurrentOS}

\* C2: at most one record of the OS table has IsCurrentOS = true.
C2_AtMostOneCurrentOS == Cardinality(CurrentRecords) <= 1

\* C3: get_oss issues no mount for an entry of type Device and stores no
\* record whose Partition is such an entry.
C3_DevicesUntouched ==
    /\ call[1] = "mount" => DISK_INFO[call[2]].Type # "Device"
    /\ \A n \in DOMAIN OS_INFO : DISK_INFO[OS_INFO[n].Partition].Type # "Device"

\* The scan has ended over an inventory with a Device entry of a Windows
\* filesystem and a partition on which an OS was found.
C3_Witness ==
    /\ pc = "done"
    /\ \E d \in DOMAIN DISK_INFO :
          DISK_INFO[d].Type = "Device" /\ FileSystemOf(d) \in WindowsFileSystems
    /\ DOMAIN OS_INFO # {}

WasMounted(p) == \E m \in mounts0 : m[1] = p

\* C4: between two entries the mount table is what it was at the call; while
\* an entry is probed the only mount added is that of the entry itself; and
\* at return, if no unmount failed, every partition is mounted exactly if it
\* was before the call.
C4_MountStateRestored ==
    /\ pc = "loop" => mounts = mounts0
    /\ pc \in {"probe", "unmount"} =>
          /\ mounts0 \subseteq mounts
          /\ \A m \in mounts \ mounts0 : m[1] = loc.partition
    /\ pc = "done" /\ ~unmountFailed =>
          \A p \in DOMAIN DISK_INFO : is_mounted(p) <=> WasMounted(p)

\* The scan has ended with no failed unmount, and it found Mac OS X on a
\* partition that was not mounted before the call and a second OS elsewhere.
C4_Witness ==
    /\ pc = "done"
    /\ ~unmountFailed
    /\ Cardinality(DOMAIN OS_INFO) = 2
    /\ \E n \in DOMAIN OS_INFO :
          /\ OS_INFO[n].PackageManager = "Mac App Store"
          /\ ~WasMounted(OS_INFO[n].Partition)

\* A record for the entry in hand is in the OS table.
StoredForEntry == \E n \in DOMAIN OS_INFO : OS_INFO[n].Partition = loc.partition

AfterLinuxProbe == pc = "unmount" /\ IsLinuxEntry(loc.partition)

\* C5: after the probes of a Linux-family entry a record for it is in the
\* table only if its name is a name (not None, empty or blank), its
\* architecture is not None and its package manager is not "Unknown".
C5_LinuxStoredOnlyIfResolved ==
    AfterLinuxProbe /\ StoredForEntry =>
        /\ loc.os_name \notin {None, "", " "}
        /\ loc.os_arch # None
        /\ loc.package_manager # "Unknown"

\* The distro probe named the OS and apt-get was found, but the
\* architecture probe returned None: no record.
C5_Witness ==
    /\ AfterLinuxProbe
    /\ loc.os_name = "U"
    /\ loc.package_manager = "apt-get"
    /\ loc.os_arch = None
    /\ ~StoredForEntry

RecordFields ==
    {"Name", "IsCurrentOS", "Arch", "Partition", "PackageManager",
     "RawFSTabInfo", "EFIPartition", "BootPartition"}

ForeignPackageManagers == {"Mac App Store", "Windows Installer"}

\* A record of the table has every field, is filed under its own name and
\* has a package manager.
Populated(n) ==
    /\ DOMAIN OS_INFO[n] = RecordFields
    /\ OS_INFO[n].Name = n
    /\ OS_INFO[n].PackageManager \in ForeignPackageManagers \cup {"apt-get", "dnf"}

\* A record is stored for the entry in hand only if a signature was found on it.
StoredOnlyOnSignature ==
    pc = "unmount" /\ StoredForEntry => loc.signature

\* C6 as stated: every record of the table (macOS, Windows or Linux) was
\* stored after a signature was found and has both its architecture and its
\* package manager resolved.
C6_EveryRecordHasArch ==
    /\ StoredOnlyOnSignature
    /\ \A n \in DOMAIN OS_INFO :
          Populated(n) /\ OS_INFO[n].Arch \notin {None, "Unknown"}

\* C6, amended: every record of the table was stored after a signature was
\* found, has every field and a resolved package manager; a Linux record has
\* a resolved architecture, a macOS or Windows record has Arch = "Unknown".
C6_RecordsPopulated ==
    /\ StoredOnlyOnSignature
    /\ \A n \in DOMAIN OS_INFO :
          /\ Populated(n)
          /\ IF OS_INFO[n].PackageManager \in ForeignPackageManagers
             THEN OS_INFO[n].Arch = "Unknown"
             ELSE OS_INFO[n].Arch \notin {None, "Unknown"}

\* The scan has ended with a Mac OS X record and a Linux record in the table.
C6_Witness ==
    /\ pc = "done"
    /\ \E n \in DOMAIN OS_INFO : OS_INFO[n].PackageManager = "Mac App Store"
    /\ \E n \in DOMAIN OS_INFO : OS_INFO[n].PackageManager = "apt-get"

Partitions == {p \in DOMAIN DISK_INFO : ~IsDevice(p)}

\* C7: get_oss returns (False, False) exactly when the OS table is empty at
\* the end of the loop, the tables otherwise; over an inventory without
\* partitions it returns (False, False).
C7_SentinelIffNoRecord ==
    pc = "done" =>
        /\ result = "False, False" <=> DOMAIN OS_INFO = {}
        /\ result # "False, False" => result = "OS_INFO, SYSTEM_INFO"
        /\ Partitions = {} => result = "False, False"

\* get_oss has returned over an inventory that has entries, none of them a
\* partition.
C7_Witness ==
    /\ pc = "done"
    /\ DOMAIN DISK_INFO # {}
    /\ Partitions = {}
    /\ result = "False, False"

\* C8: a live-root Linux entry whose name, architecture and package manager
\* are resolved gets a record with IsCurrentOS = true, and when get_oss
\* returns SystemInfo.CurrentOS is the record the table holds under its name.
C8_CurrentOSIsTheStoredRecord ==
    /\ (/\ AfterLinuxProbe
        /\ loc.is_current_os
        /\ loc.os_name # None /\ loc.os_arch # None
        /\ loc.package_manager # "Unknown")
       => /\ loc.os_name \in DOMAIN OS_INFO
          /\ OS_INFO[loc.os_name].IsCurrentOS
          /\ OS_INFO[loc.os_name].Partition = loc.partition
    /\ (pc = "done" /\ SYSTEM_INFO.CurrentOS # NoOS)
       => /\ SYSTEM_INFO.CurrentOS.Name \in DOMAIN OS_INFO
          /\ OS_INFO[SYSTEM_INFO.CurrentOS.Name] = SYSTEM_INFO.CurrentOS

(***************************************************************************)
(* Properties of partition_matches_os.                                     *)
(***************************************************************************)
Called == arg # NoArg

\* C9: for the argument "Unknown" the matcher returns false, whatever the
\* record and the UUIDs of its partitions.
C9_UnknownNeverMatches ==
    Called /\ arg.partition = "Unknown" => ~result.value /\ ~result.raised

\* The matcher was called with "Unknown" for a record whose root partition
\* has the UUID "Unknown" in the inventory.
C9_Witness ==
    /\ Called
    /\ arg.partition = "Unknown"
    /\ OS_INFO[arg.os].Partition # "Unknown"
    /\ DISK_INFO[OS_INFO[arg.os].Partition].UUID = "Unknown"
    /\ ~result.value

AllRolesUnknown(os) ==
    /\ OS_INFO[os].Partition = "Unknown"
    /\ OS_INFO[os].BootPartition = "Unknown"
    /\ OS_INFO[os].EFIPartition = "Unknown"

\* C10: for a record whose Partition, BootPartition and EFIPartition are all
\* "Unknown" the matcher returns false for every argument, and it looks up
\* no inventory entry.
C10_AllUnknownNeverMatches ==
    Called /\ AllRolesUnknown(arg.os) =>
        ~result.value /\ ~result.raised /\ result.lookups = {}

\* The matcher was called with a device path of the inventory for a record
\* whose three partitions are "Unknown".
C10_Witness ==
    /\ Called
    /\ AllRolesUnknown(arg.os)
    /\ arg.partition \in DOMAIN DISK_INFO
    /\ ~result.value

\* The root, boot and EFI partition of a record, in the order of the chain.
RoleFields(os) ==
    <<OS_INFO[os].Partition, OS_INFO[os].BootPartition, OS_INFO[os].EFIPartition>>

\* The argument is the device path of a role, or the UUID the inventory has
\* for it.
RoleMatches(part, field) ==
    field # "Unknown" /\ (part = field \/ part = DISK_INFO[field].UUID)

\* C11: the matcher returns true exactly when the argument is not "Unknown"
\* and is the device path, or the inventory's UUID, of a role of the record
\* that is not "Unknown"; the roles are tried in the order root, boot, EFI,
\* and no role after the first that matches is looked up.
C11_MatchesIffSomeRole ==
    Called =>
        LET part == arg.partition
            fields == RoleFields(arg.os)
        IN  /\ ~result.raised
            /\ result.value <=>
                   (part # "Unknown" /\ \E i \in 1..3 : RoleMatches(part, fields[i]))
            /\ \A i \in 1..3 :
                   (/\ part # "Unknown"
                    /\ RoleMatches(part, fields[i])
                    /\ \A j \in 1..(i - 1) : ~RoleMatches(part, fields[j]))
                   => result.lookups = {fields[j] : j \in 1..i} \ {"Unknown"}

\* The matcher returned true for a UUID that is the UUID of the EFI
\* partition only, after the root and the boot partition, both known, did
\* not match.
C11_Witness ==
    /\ Called
    /\ result.value
    /\ OS_INFO[arg.os].Partition # "Unknown"
    /\ OS_INFO[arg.os].BootPartition # "Unknown"
    /\ OS_INFO[arg.os].EFIPartition # "Unknown"
    /\ ~RoleMatches(arg.partition, OS_INFO[arg.os].Partition)
    /\ ~RoleMatches(arg.partition, OS_INFO[arg.os].BootPartition)
    /\ arg.partition = DISK_INFO[OS_INFO[arg.os].EFIPartition].UUID

\* The probes of a Windows-family entry are over and found no marker directory.
AfterWindowsProbeNoMarker ==
    pc = "unmount" /\ IsWindowsEntry(loc.partition) /\ ~loc.signature

Classified(d) ==
    \/ pc = "gate_done"
    \/ pc = "gate_loop" /\ Rank(d) < idx

\* The checker of the filesystem of d is not installed.
NoCheckerFor(d) ==
    FileSystemOf(d) \notin UnknownFileSystems /\ FileSystemOf(d) \notin env

\* The entry of the report for d and a reason.
Reported(d, reason) == InList(<<d, ", because the ", reason>>, fc.do_not_check_list)

AnyReason ==
    {"filesystem checker was not found.", "disk is busy.",
     "filesystem was not recognised."}

\* C13: a partition whose checker is not installed is not in
\* filesystems_to_check, is reported with the reason "filesystem checker was
\* not found." and with no other, and is never unmounted; the gate still
\* returns, with every partition either in its result or in the report the
\* dialog shows.
C13_MissingCheckerSkipped ==
    /\ \A d \in DOMAIN DISK_INFO :
          (~IsDevice(d) /\ NoCheckerFor(d) /\ Classified(d)) =>
              /\ d \notin DOMAIN fc.filesystems_to_check
              /\ Reported(d, "filesystem checker was not found.")
              /\ \A r \in AnyReason \ {"filesystem checker was not found."} :
                    ~Reported(d, r)
              /\ {m \in mounts : m[1] = d} = {m \in mounts0 : m[1] = d}
    /\ (call[1] = "unmount" /\ pc \in {"gate_loop", "gate_done"}) =>
          ~NoCheckerFor(call[2])
    /\ pc = "gate_done" =>
          /\ result = "filesystems_to_check"
          /\ fc.dialog = fc.do_not_check_list
          /\ \A d \in DOMAIN DISK_INFO :
                ~IsDevice(d) =>
                    (d \in DOMAIN fc.filesystems_to_check
                     <=> ~\E r \in AnyReason : Reported(d, r))

\* The gate has returned over a partition that was mounted at the call and
\* has no checker, which is still mounted, and a second partition that it
\* accepted.
C13_Witness ==
    /\ pc = "gate_done"
    /\ \E d \in DOMAIN DISK_INFO :
          /\ ~IsDevice(d)
          /\ NoCheckerFor(d)
          /\ WasMounted(d)
          /\ is_mounted(d)
          /\ Reported(d, "filesystem checker was not found.")
    /\ DOMAIN fc.filesystems_to_check # {}

\* The conditions of the rules 1 to 4, stated on the inventory, the machine
\* and the live root.
RuleHolds(n, d) ==
    CASE n = 1 -> NoCheckerFor(d)
      [] n = 2 -> SYSTEM_INFO.IsLiveDisk = FALSE /\ d = root_fs
      [] n = 3 -> DISK_INFO[d].Product = "LVM Partition"
                  /\ root_fs \in DISK_INFO[d].Aliases
      [] n = 4 -> FileSystemOf(d) \in UnknownFileSystems
      [] OTHER -> TRUE

\* The first of the rules 1 to 5 whose condition holds; rule 5 always does.
FirstRule(d) == CHOOSE n \in 1..5 : RuleHolds(n, d) /\ \A k \in 1..(n - 1) : ~RuleHolds(k, d)

RuleReason ==
    <<"filesystem checker was not found.", "disk is busy.", "disk is busy.",
      "filesystem was not recognised.">>

\* C14: a partition the gate has dealt with has the outcome of the first of
\* the rules 1 (checker missing), 2 (live root off live media), 3 (LVM
\* partition with the live root among its aliases), 4 (filesystem Unknown or
\* N/A), 5 (mount state) whose condition holds.  Under a rule 1 to 4 it is
\* skipped with the reason of that rule and no other, and rule 5 is not
\* applied to it: it is not unmounted.  Only under rule 5 can it be accepted.
C14_FirstRuleDecides ==
    /\ \A d \in DOMAIN DISK_INFO :
          (~IsDevice(d) /\ Classified(d)) =>
              IF FirstRule(d) <= 4
              THEN /\ d \notin DOMAIN fc.filesystems_to_check
                   /\ \A r \in AnyReason :
                         Reported(d, r) <=> r = RuleReason[FirstRule(d)]
                   /\ {m \in mounts : m[1] = d} = {m \in mounts0 : m[1] = d}
              ELSE /\ ~Reported(d, "filesystem checker was not found.")
                   /\ ~Reported(d, "filesystem was not recognised.")
                   /\ d \in DOMAIN fc.filesystems_to_check
                      <=> ~Reported(d, "disk is busy.")
    /\ (call[1] = "unmount" /\ pc \in {"gate_loop", "gate_done"}) =>
          FirstRule(call[2]) = 5

\* The gate has returned over a partition for which rule 1 and a live-root
\* rule both hold, reported under rule 1, and a partition for which a
\* live-root rule and rule 4 both hold, reported as busy.
C14_Witness ==
    /\ pc = "gate_done"
    /\ \E d \in DOMAIN DISK_INFO :
          /\ ~IsDevice(d)
          /\ RuleHolds(1, d)
          /\ RuleHolds(2, d) \/ RuleHolds(3, d)
          /\ Reported(d, "filesystem checker was not found.")
    /\ \E d \in DOMAIN DISK_INFO :
          /\ ~IsDevice(d)
          /\ RuleHolds(2, d) \/ RuleHolds(3, d)
          /\ RuleHolds(4, d)
          /\ Reported(d, "disk is busy.")

\* Where d was mounted when the gate was called.
MountPointAtCall(d) == (CHOOSE m \in mounts0 : m[1] = d)[2]

\* Some alias of d was mounted when the gate was called.  The gate unmounts
\* inventory keys only, so an alias is mounted exactly as long as it was.
AliasMountedAtCall(d) == \E a \in DISK_INFO[d].Aliases : WasMounted(a)

\* d is accepted with the given Remount and MountPoint.
Accepted(d, remount, mount_point) ==
    /\ d \in DOMAIN fc.filesystems_to_check
    /\ fc.filesystems_to_check[d] = [Remount |-> remount, MountPoint |-> mount_point]

\* d is accepted as it is, with no unmount and no remount.
AcceptedAsIs(d) ==
    /\ Accepted(d, FALSE, "None")
    /\ {m \in mounts : m[1] = d} = {m \in mounts0 : m[1] = d}

\* An unmount of d was attempted: it failed and d is skipped as busy, still
\* mounted, or it succeeded and d is accepted with Remount = true and the
\* mount point it had.
UnmountAttempted(d) ==
    \/ /\ d \notin DOMAIN fc.filesystems_to_check
       /\ Reported(d, "disk is busy.")
       /\ is_mounted(d)
    \/ /\ Accepted(d, TRUE, MountPointAtCall(d))
       /\ ~is_mounted(d)
       /\ \A r \in AnyReason : ~Reported(d, r)

UnderRule5(d) == ~IsDevice(d) /\ Classified(d) /\ FirstRule(d) = 5

ForeignRecords ==
    {n \in DOMAIN OS_INFO : OS_INFO[n].PackageManager \in ForeignPackageManagers}

\* C16 as stated: every macOS and every Windows record has Partition,
\* EFIPartition and BootPartition "Unknown", the package manager of its
\* family and IsCurrentOS = false.
C16_ForeignIdentityAllUnknown ==
    \A n \in ForeignRecords :
        /\ OS_INFO[n].Partition = "Unknown"
        /\ OS_INFO[n].EFIPartition = "Unknown"
        /\ OS_INFO[n].BootPartition = "Unknown"
        /\ OS_INFO[n].IsCurrentOS = FALSE

\* C16, amended: every macOS and every Windows record has as Partition the
\* inventory key it was found on, a partition with a filesystem of its
\* family, EFIPartition and BootPartition "Unknown", the package manager of
\* its family and IsCurrentOS = false; and every record found on a partition
\* with a macOS or Windows filesystem is such a record.
C16_ForeignIdentity ==
    /\ \A n \in ForeignRecords :
          /\ OS_INFO[n].Partition \in DOMAIN DISK_INFO
          /\ OS_INFO[n].PackageManager = "Mac App Store"
             <=> IsMacEntry(OS_INFO[n].Partition)
          /\ OS_INFO[n].PackageManager = "Windows Installer"
             <=> IsWindowsEntry(OS_INFO[n].Partition)
          /\ OS_INFO[n].EFIPartition = "Unknown"
          /\ OS_INFO[n].BootPartition = "Unknown"
          /\ OS_INFO[n].IsCurrentOS = FALSE
    /\ \A n \in DOMAIN OS_INFO :
          (/\ OS_INFO[n].Partition \in DOMAIN DISK_INFO
           /\ ~IsLinuxEntry(OS_INFO[n].Partition)) => n \in ForeignRecords

\* The scan has ended with a Mac OS X record and a Windows record in the
\* table.
C16_Witness ==
    /\ pc = "done"
    /\ \E n \in DOMAIN OS_INFO : OS_INFO[n].PackageManager = "Mac App Store"
    /\ \E n \in DOMAIN OS_INFO : OS_INFO[n].PackageManager = "Windows Installer"

\* The probes of a Windows-family entry are over and found a marker directory.
AfterWindowsProbeWithMarker ==
    pc = "unmount" /\ IsWindowsEntry(loc.partition) /\ loc.signature

\* The names of the records found on the entry in hand.
RecordsOfEntry == {n \in DOMAIN OS_INFO : OS_INFO[n].Partition = loc.partition}

\* The record name for a Windows version on the entry in hand.
WindowsRecordName(version) == version \o " (" \o loc.partition \o ")"

\* C17: on a Windows-family entry with a marker directory exactly one record
\* is stored; it is named after the first of the probes 9x, XP, Vista, 7,
\* 8/8.1, 10 that succeeded, whatever the later probes would give, and
\* "Windows" when none succeeded.
C17_FirstProbeNames ==
    AfterWindowsProbeWithMarker =>
        /\ Cardinality(RecordsOfEntry) = 1
        /\ \A n \in RecordsOfEntry : OS_INFO[n].Name = n
        /\ \A i \in 1..6 :
              (loc.versions[i] /\ \A j \in 1..(i - 1) : ~loc.versions[j])
              => RecordsOfEntry = {WindowsRecordName(WindowsVersionNames[i])}
        /\ (\A i \in 1..6 : ~loc.versions[i])
              => RecordsOfEntry = {WindowsRecordName("Windows")}

\* A marker directory was found, the Vista probe and the 8/8.1 probe succeed,
\* the 9x and the XP probe do not: the record is that of Windows Vista.
C17_Witness ==
    /\ AfterWindowsProbeWithMarker
    /\ ~loc.versions[1] /\ ~loc.versions[2]
    /\ loc.versions[3] /\ loc.versions[5]
    /\ RecordsOfEntry = {WindowsRecordName("Windows Vista")}

\* The position of a call among the calls of the Linux probes, 0 if it was
\* not made.
CallIndex(name) ==
    IF InList(name, loc.calls)
    THEN CHOOSE i \in 1..Len(loc.calls) : loc.calls[i] = name
    ELSE 0

\* The distro probe gave no name: it failed, or its output is empty or blank.
DistroGaveNoName == loc.returns[1] \in {"failed", "", " "}

\* C18: the Linux probes start with the distro probe and the architecture
\* probe.  The release-metadata probe is called exactly when the distro
\* probe gave no name and the architecture was determined, and after both;
\* the operator prompt is called exactly when the release-metadata probe was
\* called and returned None, and right after it; neither is called when the
\* architecture is None.  The name is what the last of the three that was
\* called returned, unless only the distro probe was called and it failed.
C18_NameFallbackOrder ==
    AfterLinuxProbe =>
        /\ Len(loc.calls) = Len(loc.returns)
        /\ loc.calls[1] = "distro" /\ loc.calls[2] = "arch"
        /\ loc.returns[2] = loc.os_arch
        /\ InList("lsb", loc.calls) <=> (DistroGaveNoName /\ loc.os_arch # None)
        /\ InList("lsb", loc.calls) => CallIndex("lsb") = 3
        /\ InList("ask", loc.calls) <=>
              (InList("lsb", loc.calls) /\ loc.returns[CallIndex("lsb")] = None)
        /\ InList("ask", loc.calls) => CallIndex("ask") = CallIndex("lsb") + 1
        /\ loc.os_arch = None =>
              ~InList("lsb", loc.calls) /\ ~InList("ask", loc.calls)
        /\ IF InList("ask", loc.calls)
           THEN loc.os_name = loc.returns[CallIndex("ask")]
           ELSE IF InList("lsb", loc.calls)
           THEN loc.os_name = loc.returns[CallIndex("lsb")]
           ELSE loc.returns[1] # "failed" => loc.os_name = loc.returns[1]

\* The distro probe printed a blank line, the architecture was determined,
\* the release-metadata probe returned None and the operator named the OS.
C18_Witness ==
    /\ AfterLinuxProbe
    /\ loc.returns[1] = " "
    /\ loc.os_arch # None
    /\ CallIndex("lsb") = 3
    /\ loc.returns[3] = None
    /\ CallIndex("ask") = 4
    /\ loc.os_name = "F"

\* C19: the records are filed under names that tell the partitions apart: no
\* step of get_oss changes or removes a record that is already in the OS
\* table, so that every partition on which an OS was found keeps a record of
\* its own.
C19_NoRecordOverwritten ==
    [][\A n \in DOMAIN OS_INFO :
          n \in DOMAIN OS_INFO' /\ OS_INFO'[n] = OS_INFO[n]]_vars

\* C20: the step in which an unmount fails leaves the loop, with the OS table
\* and the mount table as they are; after it the only step is the return,
\* which issues no mount-manager call, takes no further key, changes neither
\* table and gives the tables if a record was found and (False, False)
\* otherwise.
C20_UnmountFailureStopsScan ==
    [][/\ (call'[1] = "unmount" /\ call'[3] # 0) =>
              /\ pc' = "return"
              /\ unmountFailed'
              /\ OS_INFO' = OS_INFO
              /\ mounts' = mounts
       /\ unmountFailed =>
              /\ pc = "return" /\ pc' = "done"
              /\ call' = NoCall
              /\ idx' = idx
              /\ OS_INFO' = OS_INFO
              /\ mounts' = mounts
              /\ result' = IF DOMAIN OS_INFO = {} THEN "False, False"
                           ELSE "OS_INFO, SYSTEM_INFO"
      ]_vars

\* get_oss has returned the tables after the unmount of the first entry
\* failed; the second entry, a partition, was never mounted.
C20_Witness ==
    /\ pc = "done"
    /\ unmountFailed
    /\ idx = 1
    /\ Len(keys) = 2
    /\ ~IsDevice(keys[2])
    /\ ~is_mounted(keys[2])
    /\ result = "OS_INFO, SYSTEM_INFO"

\* A Linux-family entry that get_oss mounted is in hand.
MountedLinuxEntryInHand ==
    pc \in {"probe", "unmount"} /\ IsLinuxEntry(loc.partition) /\ loc.chroot

ManageBootloader == "manage_bootloader"

\* An entry of OPERATIONS: a function, or a tuple whose first item is one.
Operation(is_tuple, function) == [is_tuple |-> is_tuple, function |-> function]

\* for function in OPERATIONS:
\*     if isinstance(function, tuple):
\*         if manage_bootloader_function == function[0]: ...
DoingBootloaderOperations(manage_bootloader_function) ==
    \E i \in 1..Len(OPERATIONS) :
        OPERATIONS[i].is_tuple /\ OPERATIONS[i].function = manage_bootloader_function

\* The test that takes every exit code for corrected errors.
ErrorsCorrected_AnyCode(exec_list, retval) == exec_list[1] # "badblocks"

\* if retval in (1, 2, 3) and exec_list[0] != "badblocks"
ErrorsCorrected(exec_list, retval) ==
    retval \in {1, 2, 3} /\ exec_list[1] # "badblocks"

\* The flag set with no reason appended.
Disabled_WithoutReason(system_info, reason) ==
    [system_info EXCEPT !.DisableBootloaderOperations = TRUE]

\* SYSTEM_INFO["DisableBootloaderOperations"] = True
\* SYSTEM_INFO["DisableBootloaderOperationsBecause"].append(reason)
Disabled(system_info, reason) ==
    [system_info EXCEPT !.DisableBootloaderOperations = TRUE,
                        !.DisableBootloaderOperationsBecause = Append(@, reason)]

\* handle_filesystem_check_return_values: SYSTEM_INFO after the call, and
\* whether it asked the operator; answer is what show_yes_no_dlg returns if
\* it is shown.
HandleReturnValues(exec_list, retval, part, manage_bootloader_function, system_info, answer) ==
    IF ErrorsCorrected(exec_list, retval)
    THEN [system_info |-> system_info, asked |-> FALSE]
    ELSE IF ~DoingBootloaderOperations(manage_bootloader_function)
    THEN [system_info |-> system_info, asked |-> FALSE]
    ELSE [system_info |->
              IF answer
              THEN Disabled(system_info,
                            "Filesystem corruption was detected on " \o part)
              ELSE system_info,
          asked |-> TRUE]

QuickOnly == {"jfs", "minix", "reiserfs", "xfs", "hfs", "hfsplus"}
ExtFileSystems == {"ext2", "ext3", "ext4", "ext4dev"}

\* exec_cmds, as its list of words; <<>> is the empty command.
ExecCmds(fs, type, disk) ==
    CASE fs = "jfs" -> <<"fsck.jfs", "-vf", disk>>
      [] fs = "minix" -> <<"fsck.minix", "-avf", disk>>
      [] fs = "reiserfs" -> <<"fsck.reiserfs", "-apf", disk>>
      [] fs = "xfs" -> <<"xfs_repair", "-Pvd", disk>>
      [] fs \in {"hfs", "hfsplus"} -> <<"fsck.hfsplus", "-fy", disk>>
      [] fs = "vfat" -> <<"fsck.vfat", IF type = "Quick" THEN "-yv" ELSE "-yvt", disk>>
      [] fs \in ExtFileSystems ->
            <<"fsck." \o fs, IF type = "Quick" THEN "-yvf" ELSE "-yvcf", disk>>
      [] OTHER -> <<>>

\* run_badblocks
RunBadblocks(fs, type) == type # "Quick" /\ fs \in QuickOnly

\* for disk in filesystems_to_check: the dictionary in insertion order, which
\* is the order of the sorted keys.
checklist == SelectSeq(keys, LAMBDA d : d \in DOMAIN fc.filesystems_to_check)

CheckFrame == UNCHANGED <<DISK_INFO, OS_INFO, root_fs, mounts0, unmountFailed, env,
                          fc, arg, removed, OPERATIONS>>

\* filesystems_to_check = HelperBackendTools.find_checkable_file_systems(),
\* the length of the list and the dialog.
CheckBegin ==
    /\ pc = "gate_done"
    /\ arg # NoArg
    /\ pc' = "check_loop"
    /\ idx' = 1
    /\ call' = NoCall
    /\ UNCHANGED <<SYSTEM_INFO, mounts, loc, result>>
    /\ CheckFrame

\* filesystem_check without its remount.
RemountNeeded_Never(disk) == FALSE

\* if filesystems_to_check[disk]["Remount"]
RemountNeeded(disk) == fc.filesystems_to_check[disk].Remount

\* The exit codes of a checker and of badblocks.
CheckerExitCodes == {0, 1, 4}

\* What a command of filesystem_check can return: the exit codes if it is
\* run, nothing to choose if it is not.
ExitCodesIf(run) == IF run THEN CheckerExitCodes ELSE {0}

\* What show_yes_no_dlg can return in the handler, called for a non-zero
\* exit code.
AnswersIf(exec_list, retval) ==
    IF exec_list # <<>> /\ retval # 0 /\ ~ErrorsCorrected(exec_list, retval)
       /\ DoingBootloaderOperations(arg.manage_bootloader_function)
    THEN BOOLEAN ELSE {FALSE}

\* One pass of the loop: the check command and its handler, badblocks and
\* its handler, and the remount.
CheckDisk ==
    /\ pc = "check_loop"
    /\ idx <= Len(checklist)
    /\ LET disk == checklist[idx]
           fs == FileSystemOf(disk)
           exec_cmds == ExecCmds(fs, arg.type, disk)
           badblocks == <<"badblocks", "-sv", disk>>
           run_badblocks == RunBadblocks(fs, arg.type)
           remount == RemountNeeded(disk)
           mount_point == fc.filesystems_to_check[disk].MountPoint
       IN  \E retval \in ExitCodesIf(exec_cmds # <<>>),
              bad \in ExitCodesIf(run_badblocks) :
           \E answer1 \in AnswersIf(exec_cmds, retval),
              answer2 \in AnswersIf(IF run_badblocks THEN badblocks ELSE <<>>, bad),
              rc \in (IF remount THEN ExitCodes ELSE {0}) :
              LET first == IF exec_cmds # <<>> /\ retval # 0
                           THEN HandleReturnValues(exec_cmds, retval, disk,
                                                   arg.manage_bootloader_function,
                                                   SYSTEM_INFO, answer1)
                           ELSE [system_info |-> SYSTEM_INFO, asked |-> FALSE]
                  second == IF run_badblocks /\ bad # 0
                            THEN HandleReturnValues(badblocks, bad, disk,
                                                    arg.manage_bootloader_function,
                                                    first.system_info, answer2)
                            ELSE [system_info |-> first.system_info, asked |-> FALSE]
              IN  /\ SYSTEM_INFO' = second.system_info
                  /\ call' = IF remount THEN <<"mount", disk, rc>> ELSE NoCall
                  /\ mounts' = IF remount /\ rc = 0 THEN Mounted(disk, mount_point)
                               ELSE mounts
                  /\ loc' = [disk |-> disk, exec_cmds |-> exec_cmds,
                             failed |-> retval # 0 \/ bad # 0,
                             mount_point |-> IF remount THEN mount_point ELSE "None"]
    /\ idx' = idx + 1
    /\ UNCHANGED <<pc, result>>
    /\ CheckFrame

\* The end of filesystem_check.
CheckEnd ==
    /\ pc = "check_loop"
    /\ idx > Len(checklist)
    /\ pc' = "check_done"
    /\ call' = NoCall
    /\ UNCHANGED <<SYSTEM_INFO, mounts, idx, loc, result>>
    /\ CheckFrame

\* Entries filesystem_check tells apart: <<Type, FileSystem, LVM partition>>.
CheckKinds ==
    ({"Partition"} \X {"ext4", "jfs", "ntfs"} \X {FALSE})
    \cup {<<"Partition", "ext4", TRUE>>, <<"Device", "ext4", FALSE>>}

\* The lists of operations filesystem_check may run under.
OperationLists ==
    {<<>>, <<Operation(FALSE, "filesystem_check"), Operation(TRUE, ManageBootloader)>>}

\* filesystem_check(_type, manage_bootloader_function) on an installed system
\* (not a live disk) that has the checkers of its filesystems; its root is
\* the first partition or an LVM volume.
InitCheck ==
    /\ \E ks \in KeySets : \E kind \in [ks -> CheckKinds] :
          DISK_INFO = [p \in ks |->
                          Entry(kind[p][1], kind[p][2], UUIDName[Rank(p)],
                                kind[p][3], {AliasName})]
    /\ root_fs \in {PathName[1], AliasName}
    /\ \E M \in SUBSET (((DOMAIN DISK_INFO) \cup {AliasName}) \ {root_fs}) :
          mounts = {<<root_fs, "/">>} \cup {<<p, PriorMountPoint(p)>> : p \in M}
    /\ mounts0 = mounts
    /\ env = {"ext4", "jfs", "ntfs"}
    /\ OS_INFO = EmptyTable
    /\ SYSTEM_INFO = InitialSystemInfo(FALSE)
    /\ pc = "gate_start"
    /\ idx = 1
    /\ loc = NoLocals
    /\ result = None
    /\ call = NoCall
    /\ unmountFailed = FALSE
    /\ fc = NoGate
    /\ \E type \in {"Quick", "Thorough"} :
          arg = [type |-> type, manage_bootloader_function |-> ManageBootloader]
    /\ removed = None
    /\ OPERATIONS \in OperationLists

NextCheck ==
    \/ GateStart \/ GateDevice \/ GateClassify \/ GateReturn
    \/ CheckBegin \/ CheckDisk \/ CheckEnd

SpecCheck == InitCheck /\ [][NextCheck]_vars

(***************************************************************************)
(* Properties of filesystem_check after find_checkable_file_systems.       *)
(***************************************************************************)
InGate == pc \in {"gate_start", "gate_loop"}

DiskInHand == pc = "check_loop" /\ idx <= Len(checklist)

\* C22: in the gate the mount table changes only by an unmount that
\* succeeds, and the entry unmounted is then in filesystems_to_check with
\* Remount = true and the mount point it had.  filesystem_check takes every
\* entry of filesystems_to_check in turn; for an entry with Remount = true
\* the pass ends with a mount of the entry at its recorded MountPoint,
\* whatever the check commands returned, and for an entry with Remount =
\* false the pass issues no mount and leaves the mount table alone.
C22_UnmountPairedWithRemount ==
    [][/\ InGate =>
              /\ mounts' # mounts => (call'[1] = "unmount" /\ call'[3] = 0)
              /\ (call'[1] = "unmount" /\ call'[3] = 0) =>
                    /\ mounts' = Unmounted(call'[2])
                    /\ call'[2] \in DOMAIN fc'.filesystems_to_check
                    /\ fc'.filesystems_to_check[call'[2]] =
                          [Remount |-> TRUE,
                           MountPoint |-> get_mount_point_of(call'[2])]
       /\ pc = "gate_done" =>
              /\ pc' = "check_loop" /\ idx' = 1
              /\ \A d \in DOMAIN fc.filesystems_to_check : InList(d, checklist)
       /\ DiskInHand =>
              LET disk == checklist[idx]
                  entry == fc.filesystems_to_check[disk]
              IN  /\ idx' = idx + 1
                  /\ fc' = fc
                  /\ IF entry.Remount
                     THEN /\ call'[1] = "mount" /\ call'[2] = disk
                          /\ loc'.mount_point = entry.MountPoint
                          /\ mounts' = IF call'[3] = 0
                                       THEN mounts \cup {<<disk, entry.MountPoint>>}
                                       ELSE mounts
                     ELSE /\ call' = NoCall
                          /\ mounts' = mounts
      ]_vars

\* The loop of filesystem_check is over; the check of the last entry failed
\* and the operator disabled the bootloader operations, and the entry, which the gate
\* had unmounted, is mounted again where it was: the mount table is that of
\* the call.
C22_Witness ==
    /\ pc = "check_loop"
    /\ idx > Len(checklist)
    /\ loc # NoLocals
    /\ loc.failed
    /\ SYSTEM_INFO.DisableBootloaderOperations
    /\ call = <<"mount", loc.disk, 0>>
    /\ WasMounted(loc.disk)
    /\ fc.filesystems_to_check[loc.disk].Remount
    /\ mounts = mounts0

(***************************************************************************)
(* Further properties of get_oss: the current OS, mounts and chroot.       *)
(***************************************************************************)
\* C23: a step of get_oss changes SYSTEM_INFO only in its CurrentOS, and only
\* in the probes of a Linux-family entry that is the live root, by its path
\* or through an alias, to the record stored for that entry in the same
\* step; every step on a macOS, Windows or other Linux entry leaves
\* SYSTEM_INFO as it is.
C23_CurrentOSWrittenForLiveRootOnly ==
    [][SYSTEM_INFO' # SYSTEM_INFO =>
          /\ pc = "probe"
          /\ IsLinuxEntry(loc.partition)
          /\ loc.partition = root_fs
             \/ (DISK_INFO[loc.partition].HasAliases
                 /\ root_fs \in DISK_INFO[loc.partition].Aliases)
          /\ SYSTEM_INFO' = [SYSTEM_INFO EXCEPT !.CurrentOS = SYSTEM_INFO'.CurrentOS]
          /\ SYSTEM_INFO'.CurrentOS.Name \in DOMAIN OS_INFO'
          /\ OS_INFO'[SYSTEM_INFO'.CurrentOS.Name] = SYSTEM_INFO'.CurrentOS
          /\ SYSTEM_INFO'.CurrentOS.Partition = loc.partition
          /\ OS_INFO' # OS_INFO
      ]_vars

\* The scan has ended; the current OS was recorded for the live root, and the
\* record of a Linux partition that is not the live root was stored without
\* touching it.
C23_Witness ==
    /\ pc = "done"
    /\ SYSTEM_INFO.CurrentOS # NoOS
    /\ \E n \in DOMAIN OS_INFO :
          /\ OS_INFO[n].Partition # SYSTEM_INFO.CurrentOS.Partition
          /\ IsLinuxEntry(OS_INFO[n].Partition)
          /\ ~OS_INFO[n].IsCurrentOS

\* What each probe of the Linux branch is given when it runs on mount point
\* mp behind the command prefix pre.
ProbeArgs(name, pre, mp) ==
    CASE name = "distro" -> <<pre \o DistroCmd>>
      [] name = "arch" -> <<mp>>
      [] name = "lsb" -> <<loc.partition, mp>>
      [] name = "ask" -> <<loc.partition>>
      [] name = "package_manager" -> <<pre \o AptCmd, pre \o DnfCmd>>
      [] name = "fstab" -> <<mp, loc'.os_name>>

\* The probes of this step all ran with prefix pre on mount point mp.
ProbesRanWith(pre, mp) ==
    /\ Len(loc'.args) = Len(loc'.calls)
    /\ Len(loc'.calls) >= 3
    /\ \A i \in 1..Len(loc'.calls) :
          loc'.args[i] = ProbeArgs(loc'.calls[i], pre, mp)

\* The entry is the partition mounted at "/" or lists it as an alias.
IsRootOrHasRootAsAlias(p) ==
    p = root_fs \/ (DISK_INFO[p].HasAliases /\ root_fs \in DISK_INFO[p].Aliases)

\* C24: for a Linux-family entry that is the live root, by its path or
\* through an alias, no step of get_oss calls mount or unmount or changes the
\* mount table, and its probes run directly, on the empty mount point; for
\* every other Linux-family entry the first step mounts the partition at its
\* temporary mount point, no probe has run before that mount is in place,
\* and every probe runs chrooted into that mount point.
C24_LiveRootDirectOthersChrooted ==
    [][/\ (InLoop /\ IsLinuxEntry(partition) /\ IsRootOrHasRootAsAlias(partition)) =>
             /\ call' = NoCall /\ mounts' = mounts
             /\ pc' = "probe" /\ loc'.calls = <<>> /\ ~loc'.chroot
       /\ (pc \in {"probe", "unmount"} /\ IsLinuxEntry(loc.partition)
             /\ IsRootOrHasRootAsAlias(loc.partition)) =>
             /\ call' = NoCall /\ mounts' = mounts
             /\ pc = "probe" => ProbesRanWith("", "")
       /\ (InLoop /\ IsLinuxEntry(partition) /\ ~IsRootOrHasRootAsAlias(partition)) =>
             /\ call'[1] = "mount" /\ call'[2] = partition
             /\ pc' = "probe" =>
                   /\ call'[3] = 0
                   /\ <<partition, TempMountPoint(partition)>> \in mounts'
                   /\ loc'.calls = <<>>
       /\ (pc = "probe" /\ IsLinuxEntry(loc.partition)
             /\ ~IsRootOrHasRootAsAlias(loc.partition)) =>
             /\ <<loc.partition, TempMountPoint(loc.partition)>> \in mounts
             /\ loc.calls = <<>>
             /\ ProbesRanWith("chroot " \o TempMountPoint(loc.partition) \o " ",
                              TempMountPoint(loc.partition))
      ]_vars

\* The probes of a Linux-family entry that is not the live root have run, all
\* six of them, chrooted into its temporary mount point, after the current
\* OS was recorded from the probes of the live root.
C24_Witness ==
    /\ pc = "unmount"
    /\ IsLinuxEntry(loc.partition)
    /\ loc.chroot
    /\ Len(loc.args) = 6
    /\ loc.args[5] = <<Chrooted(TempMountPoint(loc.partition), AptCmd),
                       Chrooted(TempMountPoint(loc.partition), DnfCmd)>>
    /\ SYSTEM_INFO.CurrentOS # NoOS
    /\ SYSTEM_INFO.CurrentOS.Partition # loc.partition

\* C25: a step of get_oss in which a mount fails is a step of the loop head
\* that goes on to the next key with nothing in hand: it stores no record,
\* leaves SYSTEM_INFO and the mount table as they are and removes no
\* directory, so that no probe and no unmount follows for that entry; and
\* the loop is left before its last key only after a failed unmount.
C25_MountFailureSkipsEntryOnly ==
    [][/\ (call'[1] = "mount" /\ call'[3] # 0 /\ pc = "loop") =>
             /\ call'[2] = partition
             /\ pc' = "loop"
             /\ idx' = idx + 1
             /\ loc' = NoLocals
             /\ OS_INFO' = OS_INFO
             /\ SYSTEM_INFO' = SYSTEM_INFO
             /\ mounts' = mounts
             /\ removed' = None
             /\ unmountFailed' = unmountFailed
       /\ (call'[1] = "mount" /\ call' # call) => pc = "loop"
       /\ pc \in {"probe", "unmount"} =>
             \/ is_mounted(loc.partition)
             \/ IsLinuxEntry(loc.partition) /\ ~loc.chroot
       /\ (pc' = "return" /\ idx' <= Len(keys)) => unmountFailed'
      ]_vars

\* The mount of the first entry has failed and the loop stands at the second
\* entry, with no record stored and nothing mounted that was not.
C25_Witness ==
    /\ pc = "loop"
    /\ idx = 2
    /\ idx <= Len(keys)
    /\ call = <<"mount", keys[1], 32>>
    /\ loc = NoLocals
    /\ OS_INFO = EmptyTable
    /\ mounts = mounts0

(***************************************************************************)
(* check_internet_connection.                                              *)
(***************************************************************************)
\* Largest number of ping runs that is counted; further runs leave the count.
MaxPings == 3

\* The output of iputils ping -c 5, as lines of words.
PingHeader == <<"PING", "208.67.222.222", "56(84)", "bytes", "of", "data.">>

PingSummary(received, errors, loss) ==
    <<"5", "packets", "transmitted,", received, "received,">> \o errors
        \o <<loss, "packet", "loss,", "time", "2003ms">>

PingOutputs ==
    {<<>>,
     <<PingHeader>>,
     <<PingHeader, PingSummary("5", <<>>, "0%")>>,
     <<PingHeader, PingSummary("4", <<>>, "20%")>>,
     <<PingHeader, PingSummary("0", <<>>, "100%")>>,
     <<PingHeader, PingSummary("0", <<"+5", "errors,">>, "100%")>>}

\* Exit codes of ping: a reply came, no reply came, another error.
PingExitCodes == {0, 1, 2}

\* 'packet loss' in line
HasPacketLoss(line) ==
    \E i \in 1..(Len(line) - 1) :
        line[i] = "packet" /\ line[i + 1] \in {"loss", "loss,"}

\* for line in output.split("\n"):
\*     if 'packet loss' in line: packet_loss = line.split()[-5]
RECURSIVE ParsePacketLoss(_, _)
ParsePacketLoss(lines, packet_loss) ==
    IF lines = <<>> THEN packet_loss
    ELSE ParsePacketLoss(Tail(lines),
                         IF HasPacketLoss(Head(lines))
                         THEN Head(lines)[Len(Head(lines)) - 4]
                         ELSE packet_loss)

\* packet_loss after the test of retval and the scan of the output.
PacketLoss(retval, output) ==
    IF retval # 0 THEN "100%" ELSE ParsePacketLoss(output, "100%")

\* The test passed for anything but a total loss.
ConnectionIsGood_UnlessTotalLoss(packet_loss) == packet_loss # "100%"

\* if packet_loss == "0%": break
ConnectionIsGood(packet_loss) == packet_loss = "0%"

InternetReason == "Internet Connection test failed."

InternetFrame ==
    UNCHANGED <<DISK_INFO, OS_INFO, root_fs, mounts, mounts0, result, call,
                unmountFailed, env, fc, arg, removed, OPERATIONS>>

\* One ping run and the test of its packet loss; idx counts the runs.
InternetPing ==
    /\ pc = "net_ping"
    /\ \E retval \in PingExitCodes, output \in PingOutputs :
          LET packet_loss == PacketLoss(retval, output)
          IN  /\ loc' = [retval |-> retval, output |-> output,
                         packet_loss |-> packet_loss, result |-> None]
              /\ pc' = IF ConnectionIsGood(packet_loss) THEN "net_done"
                       ELSE "net_ask"
    /\ idx' = IF idx < MaxPings THEN idx + 1 ELSE idx
    /\ UNCHANGED SYSTEM_INFO
    /\ InternetFrame

\* What an answer of the yes/no dialog does to the loop and to SYSTEM_INFO.
InternetAnswer(answer) ==
    IF answer = FALSE
    THEN /\ SYSTEM_INFO' = Disabled(SYSTEM_INFO, InternetReason)
         /\ pc' = "net_done"
    ELSE /\ pc' = "net_ping"
         /\ UNCHANGED SYSTEM_INFO

\* The dialog after a failed test: try again, or cancel bootloader operations.
InternetAsk ==
    /\ pc = "net_ask"
    /\ \E answer \in BOOLEAN :
          /\ loc' = [loc EXCEPT !.result = answer]
          /\ InternetAnswer(answer)
    /\ UNCHANGED idx
    /\ InternetFrame

\* SYSTEM_INFO when check_internet_connection is called: as initialised, or
\* with bootloader operations already disabled by a filesystem check.
InitInternet ==
    /\ DISK_INFO = EmptyTable
    /\ OS_INFO = EmptyTable
    /\ \E live \in BOOLEAN :
          SYSTEM_INFO \in
              {InitialSystemInfo(live),
               Disabled(InitialSystemInfo(live),
                        "Filesystem corruption was detected on " \o PathName[1])}
    /\ root_fs = PathName[1]
    /\ mounts = {<<root_fs, "/">>}
    /\ mounts0 = mounts
    /\ env = {}
    /\ pc = "net_ping"
    /\ idx = 0
    /\ loc = NoLocals
    /\ result = None
    /\ call = NoCall
    /\ unmountFailed = FALSE
    /\ fc = NoGate
    /\ arg = NoArg
    /\ removed = None
    /\ OPERATIONS = <<>>

NextInternet == InternetPing \/ InternetAsk

SpecInternet == InitInternet /\ [][NextInternet]_vars

\* The loss figure of the output: the word before "packet loss" in the last
\* line that has one, None when no line has.
ReportedLoss(output) ==
    LET S == {i \in 1..Len(output) : HasPacketLoss(output[i])}
    IN  IF S = {} THEN None
        ELSE LET line == output[CHOOSE i \in S : \A j \in S : j <= i]
                 k == CHOOSE i \in 1..(Len(line) - 1) :
                         line[i] = "packet" /\ line[i + 1] \in {"loss", "loss,"}
             IN  line[k - 1]

\* The ping run of this step succeeded and reported 0% packet loss.
PingReportsNoLoss == loc'.retval = 0 /\ ReportedLoss(loc'.output) = "0%"

\* C26: check_internet_connection ends either in a ping step whose run
\* reported exactly 0% packet loss, with SYSTEM_INFO unchanged, or in a
\* dialog step in which the operator declined to retry, with
\* DisableBootloaderOperations set and exactly one reason appended; a ping
\* step with any other outcome leads to the dialog, and any other answer leads
\* to another ping run, however many runs there have been, each leaving
\* SYSTEM_INFO as it is.
C26_EndsOnNoLossOrDecline ==
    [][/\ pc = "net_ping" =>
             /\ SYSTEM_INFO' = SYSTEM_INFO
             /\ pc' = IF PingReportsNoLoss THEN "net_done" ELSE "net_ask"
       /\ pc = "net_ask" =>
             IF loc'.result = FALSE
             THEN /\ pc' = "net_done"
                  /\ SYSTEM_INFO'.DisableBootloaderOperations
                  /\ SYSTEM_INFO'.DisableBootloaderOperationsBecause =
                        Append(SYSTEM_INFO.DisableBootloaderOperationsBecause,
                               InternetReason)
                  /\ SYSTEM_INFO'.CurrentOS = SYSTEM_INFO.CurrentOS
                  /\ SYSTEM_INFO'.IsLiveDisk = SYSTEM_INFO.IsLiveDisk
             ELSE /\ pc' = "net_ping"
                  /\ SYSTEM_INFO' = SYSTEM_INFO
      ]_vars

\* The operator asked for the test again until MaxPings runs had failed, the
\* last with a reply but 20% packet loss, and then declined: the function has
\* ended with bootloader operations disabled for that one reason.
C26_Witness ==
    /\ pc = "net_done"
    /\ idx = MaxPings
    /\ loc.retval = 0
    /\ loc.packet_loss = "20%"
    /\ loc.result = FALSE
    /\ SYSTEM_INFO.DisableBootloaderOperations
    /\ SYSTEM_INFO.DisableBootloaderOperationsBecause = <<InternetReason>>

(***************************************************************************)
(* wait_until_packagemanager_free.                                         *)
(***************************************************************************)
\* Largest number of runs of the check command that is counted; further runs
\* leave the count.
MaxPolls == 3

\* retval = 1, before the loop.
InitialRetval == 1

\* time.sleep(5)
SleepSeconds == 5

\* Exit codes of the check command: none pending, an error, updates
\* available or apt in use, a locking failure.
CheckCommandExitCodes == {0, 1, 100, 200}

\* cmd, before the chroot prefix.
CheckCommand(package_manager) ==
    IF package_manager = "apt-get" THEN "apt-get check"
    ELSE "dnf -C check-update"

\* The success codes with 100 accepted for apt-get as well.
SuccessRetvals_WithHundred(package_manager) == {0, 100}

\* success_retvals
SuccessRetvals(package_manager) ==
    IF package_manager = "apt-get" THEN {0} ELSE {0, 100}

\* if mount_point != "": cmd = "chroot "+mount_point+" "+cmd
InMountPoint(mount_point, command) ==
    IF mount_point # "" THEN "chroot " \o mount_point \o " " \o command
    ELSE command

\* if package_manager == "dnf" and retval not in (0, 200)
NeedsPackageCache(package_manager, retval) ==
    package_manager = "dnf" /\ retval \notin {0, 200}

WaitFrame ==
    UNCHANGED <<DISK_INFO, OS_INFO, SYSTEM_INFO, root_fs, mounts, mounts0,
                result, unmountFailed, env, fc, arg, removed, OPERATIONS>>

\* while retval not in success_retvals
WaitTest ==
    /\ pc = "wait_test"
    /\ pc' = IF loc.retval \notin loc.success_retvals THEN "wait_run"
             ELSE "wait_done"
    /\ call' = NoCall
    /\ UNCHANGED <<loc, idx>>
    /\ WaitFrame

\* retval = CoreTools.start_process(cmd, ...) with exit code retval; idx
\* counts the runs.
WaitRunWith(retval) ==
    /\ pc = "wait_run"
    /\ loc' = [loc EXCEPT !.retval = retval]
    /\ call' = <<"start_process", loc.cmd, retval>>
    /\ idx' = IF idx < MaxPolls THEN idx + 1 ELSE idx
    /\ pc' = IF NeedsPackageCache(arg.package_manager, retval)
             THEN "wait_cache" ELSE "wait_sleep"
    /\ WaitFrame

WaitRun == \E retval \in CheckCommandExitCodes : WaitRunWith(retval)

\* A run of the check command that reports a success code.
WaitRunSucceeds ==
    \E retval \in SuccessRetvals(arg.package_manager) : WaitRunWith(retval)

\* "Get the package cache if there is none": the echo and dnf check-update.
WaitCache ==
    /\ pc = "wait_cache"
    /\ \E rc \in CheckCommandExitCodes :
          call' = <<"start_process",
                    InMountPoint(arg.mount_point, "dnf check-update"), rc>>
    /\ pc' = "wait_sleep"
    /\ UNCHANGED <<loc, idx>>
    /\ WaitFrame

\* time.sleep(5), at the end of every pass of the loop.
WaitSleep ==
    /\ pc = "wait_sleep"
    /\ call' = <<"sleep", "", SleepSeconds>>
    /\ pc' = "wait_test"
    /\ UNCHANGED <<loc, idx>>
    /\ WaitFrame

\* The call, for an operating system get_oss recorded: its package manager
\* is apt-get or dnf, its mount point empty for the current OS.
InitWait ==
    /\ DISK_INFO = EmptyTable
    /\ OS_INFO = EmptyTable
    /\ SYSTEM_INFO = InitialSystemInfo(FALSE)
    /\ root_fs = PathName[1]
    /\ mounts = {<<root_fs, "/">>}
    /\ mounts0 = mounts
    /\ env = {}
    /\ \E mount_point \in {""} \cup {TempMountPoint(p) : p \in Paths},
          package_manager \in {"apt-get", "dnf"} :
          /\ arg = [mount_point |-> mount_point,
                    package_manager |-> package_manager]
          /\ loc = [cmd |-> InMountPoint(mount_point,
                                         CheckCommand(package_manager)),
                    success_retvals |-> SuccessRetvals(package_manager),
                    retval |-> InitialRetval]
    /\ pc = "wait_test"
    /\ idx = 0
    /\ result = None
    /\ call = NoCall
    /\ unmountFailed = FALSE
    /\ fc = NoGate
    /\ removed = None
    /\ OPERATIONS = <<>>

NextWait == WaitTest \/ WaitRun \/ WaitCache \/ WaitSleep

SpecWait == InitWait /\ [][NextWait]_vars

\* The thread that called the function keeps running, every command it
\* starts and every sleep returns, and the package manager does not report a
\* non-success code for ever.
SpecWaitFair ==
    SpecWait /\ WF_vars(NextWait) /\ SF_vars(WaitRunSucceeds)

\* A success code of the check command: 0, and 100 for dnf.
IsSuccessCode(package_manager, retval) ==
    retval = 0 \/ (package_manager = "dnf" /\ retval = 100)

\* The function returns only from the loop test, after at least one run of
\* the check command, the last of which gave a success code; a run is a run
\* of the check command of the package manager, chrooted for a mount point;
\* after a run with a non-success code the function sleeps the fixed delay
\* and runs the command again.
WaitSafety ==
    [][/\ (pc' = "wait_done" /\ pc # "wait_done") =>
             /\ pc = "wait_test"
             /\ idx >= 1
             /\ call[1] = "sleep"
             /\ IsSuccessCode(arg.package_manager, loc.retval)
             /\ loc' = loc
       /\ (pc = "wait_test"
             /\ ~IsSuccessCode(arg.package_manager, loc.retval)) =>
             pc' = "wait_run"
       /\ pc = "wait_run" =>
             /\ call'[1] = "start_process"
             /\ call'[2] = (IF arg.mount_point = "" THEN ""
                            ELSE "chroot " \o arg.mount_point \o " ")
                           \o (IF arg.package_manager = "apt-get"
                               THEN "apt-get check"
                               ELSE "dnf -C check-update")
             /\ loc'.retval = call'[3]
             /\ pc' \in {"wait_cache", "wait_sleep"}
       /\ pc = "wait_cache" => pc' = "wait_sleep" /\ loc' = loc
       /\ pc = "wait_sleep" =>
             /\ call' = <<"sleep", "", SleepSeconds>>
             /\ pc' = "wait_test"
             /\ loc' = loc
      ]_vars

\* C27: wait_until_packagemanager_free runs the check command at least once
\* and returns only after a run whose exit code is a success code (0, and
\* 100 for dnf), sleeping the fixed delay and running the command again after
\* any other code; and when the thread keeps running and the package manager
\* does not report non-success codes for ever, the function returns.
C27_ReturnsOnSuccessCodeOnly ==
    /\ WaitSafety
    /\ [](pc = "wait_done" =>
             idx >= 1 /\ IsSuccessCode(arg.package_manager, loc.retval))
    /\ <>(pc = "wait_done")

\* The function has returned for dnf in a chroot after MaxPolls runs of the
\* check command, the last of which reported 100.
C27_Witness ==
    /\ pc = "wait_done"
    /\ idx = MaxPolls
    /\ arg.package_manager = "dnf"
    /\ arg.mount_point # ""
    /\ loc.retval = 100

(***************************************************************************)
(* handle_filesystem_check_return_values, called on its own.               *)
(***************************************************************************)
\* Commands the handler is called for: those filesystem_check builds, and
\* its badblocks command.
HandledCommands ==
    {ExecCmds(fs, "Quick", PathName[1]) : fs \in {"ext4", "xfs", "jfs"}}
        \cup {<<"badblocks", "-sv", PathName[1]>>}

\* Exit codes the handler is called with.
HandledExitCodes == {0, 1, 2, 3, 4, 8}

\* OPERATIONS: empty, functions only, a tuple of another function, and
\* a tuple of the bootloader function behind a plain function.
HandledOperationLists ==
    {<<>>,
     <<Operation(FALSE, ManageBootloader)>>,
     <<Operation(TRUE, "filesystem_check")>>,
     <<Operation(FALSE, "filesystem_check"), Operation(TRUE, ManageBootloader)>>}

HandleCall ==
    /\ pc = "handle"
    /\ \E answer \in BOOLEAN :
          LET r == HandleReturnValues(arg.exec_cmds, arg.retval, arg.partition,
                                      arg.manage_bootloader_function,
                                      SYSTEM_INFO, answer)
          IN  /\ SYSTEM_INFO' = r.system_info
              /\ loc' = [asked |-> r.asked,
                         result |-> IF r.asked THEN answer ELSE None]
    /\ pc' = "handle_done"
    /\ UNCHANGED <<DISK_INFO, OS_INFO, root_fs, mounts, idx, result, mounts0,
                   call, unmountFailed, env, fc, arg, removed, OPERATIONS>>

InitHandle ==
    /\ DISK_INFO = EmptyTable
    /\ OS_INFO = EmptyTable
    /\ SYSTEM_INFO \in
          {InitialSystemInfo(FALSE),
           Disabled(InitialSystemInfo(FALSE), InternetReason)}
    /\ root_fs = PathName[MaxParts]
    /\ mounts = {<<root_fs, "/">>}
    /\ mounts0 = mounts
    /\ env = {}
    /\ \E exec_cmds \in HandledCommands, retval \in HandledExitCodes :
          arg = [exec_cmds |-> exec_cmds, retval |-> retval,
                 partition |-> PathName[1],
                 manage_bootloader_function |-> ManageBootloader]
    /\ OPERATIONS \in HandledOperationLists
    /\ pc = "handle"
    /\ idx = 1
    /\ loc = NoLocals
    /\ result = None
    /\ call = NoCall
    /\ unmountFailed = FALSE
    /\ fc = NoGate
    /\ removed = None

NextHandle == HandleCall

SpecHandle == InitHandle /\ [][NextHandle]_vars

\* The handler has the operator to ask: the exit code is not 1, 2 or 3 or
\* the command is badblocks, and a tuple of OPERATIONS holds the bootloader
\* function.
MustAsk ==
    /\ arg.retval \notin {1, 2, 3} \/ arg.exec_cmds[1] = "badblocks"
    /\ \E i \in 1..Len(OPERATIONS) :
          /\ OPERATIONS[i].is_tuple
          /\ OPERATIONS[i].function = arg.manage_bootloader_function

\* C28: a call of handle_filesystem_check_return_values always returns; it
\* sets DisableBootloaderOperations and appends the one reason that names the
\* partition exactly if the exit code is not 1, 2 or 3 or the command is
\* badblocks, and a tuple of OPERATIONS holds the bootloader function, and
\* the operator, who is asked exactly then, chose to disable; in every other
\* case SYSTEM_INFO is left as it was.
C28_DisablesExactlyOnChoice ==
    [][pc = "handle" =>
          /\ pc' = "handle_done"
          /\ loc'.asked <=> MustAsk
          /\ IF MustAsk /\ loc'.result = TRUE
             THEN /\ SYSTEM_INFO'.DisableBootloaderOperations
                  /\ SYSTEM_INFO'.DisableBootloaderOperationsBecause =
                        Append(SYSTEM_INFO.DisableBootloaderOperationsBecause,
                               "Filesystem corruption was detected on "
                                   \o arg.partition)
                  /\ SYSTEM_INFO'.CurrentOS = SYSTEM_INFO.CurrentOS
                  /\ SYSTEM_INFO'.IsLiveDisk = SYSTEM_INFO.IsLiveDisk
             ELSE SYSTEM_INFO' = SYSTEM_INFO
      ]_vars

\* badblocks returned 1 while a bootloader operation was queued, and the
\* operator chose to disable: the flag is set and the reason names the
\* partition.
C28_Witness ==
    /\ pc = "handle_done"
    /\ arg.exec_cmds[1] = "badblocks"
    /\ arg.retval = 1
    /\ loc.asked
    /\ loc.result = TRUE
    /\ SYSTEM_INFO.DisableBootloaderOperations
    /\ SYSTEM_INFO.DisableBootloaderOperationsBecause =
          <<"Filesystem corruption was detected on " \o arg.partition>>

(***************************************************************************)
(* The two helpers together: calls of partition_matches_os on the tables   *)
(* of a detection run, or a run of find_checkable_file_systems.            *)
(***************************************************************************)
InitHelpers == InitMatch \/ InitGate

NextHelpers == MatchCall \/ GateStart \/ GateDevice \/ GateClassify \/ GateReturn

SpecHelpers == InitHelpers /\ [][NextHelpers]_vars

\* C29: no step of partition_matches_os and no step of
\* find_checkable_file_systems changes DISK_INFO or OS_INFO, and a call of
\* partition_matches_os leaves the mount table alone and issues no
\* mount-manager call.
C29_HelpersReadOnly ==
    [][/\ DISK_INFO' = DISK_INFO
       /\ OS_INFO' = OS_INFO
       /\ pc = "match" => (mounts' = mounts /\ call' = call /\ call = NoCall)
      ]_vars

\* find_checkable_file_systems has returned after it unmounted a partition
\* of an inventory of MaxParts entries: the mount table is not that of the
\* call, and the tables are untouched.
C29_Witness ==
    /\ pc = "gate_done"
    /\ mounts # mounts0
    /\ Cardinality(DOMAIN DISK_INFO) = MaxParts
    /\ \E p \in DOMAIN DISK_INFO :
          /\ p \in DOMAIN fc.filesystems_to_check
          /\ fc.filesystems_to_check[p].Remount
          /\ DISK_INFO[p].UUID = UUIDName[Rank(p)]

(***************************************************************************)
(* The mount state of what find_checkable_file_systems returns.            *)
(***************************************************************************)
\* C30 as stated: when find_checkable_file_systems has returned, no entry of
\* filesystems_to_check is mounted, under its own path or under one of its
\* aliases.
C30_CheckableMeansNotMounted ==
    pc = "gate_done" =>
        \A d \in DOMAIN fc.filesystems_to_check :
            ~is_mounted(d) /\ ~any_mounted(DISK_INFO[d].Aliases)

(***************************************************************************)
(* Every entry classified once by find_checkable_file_systems.             *)
(***************************************************************************)
\* The places of d on the non-checkable list, whatever the reason.
ReportEntriesOf(d) ==
    {i \in 1..Len(fc.do_not_check_list) : fc.do_not_check_list[i][1] = d}

\* C31: at every point of find_checkable_file_systems a non-device entry
\* the loop has passed is either in filesystems_to_check or on the
\* non-checkable list, there once and with one of the three reasons, and
\* never in both; an entry the loop has not reached is in neither; an entry
\* of Type Device is in neither at any time, is mounted exactly as it was at
\* the call, and is never the subject of an unmount.
C31_ClassifiedExactlyOnce ==
    pc \in {"gate_loop", "gate_done"} =>
        /\ \A d \in DOMAIN DISK_INFO :
              LET checkable == d \in DOMAIN fc.filesystems_to_check
                  skipped == ReportEntriesOf(d)
              IN  IF DISK_INFO[d].Type # "Device" /\ Classified(d)
                  THEN /\ checkable <=> skipped = {}
                       /\ Cardinality(skipped) <= 1
                       /\ \A i \in skipped :
                             /\ fc.do_not_check_list[i][3] \in AnyReason
                             /\ Len(fc.do_not_check_list[i]) = 3
                  ELSE /\ ~checkable
                       /\ skipped = {}
                       /\ {m \in mounts : m[1] = d} = {m \in mounts0 : m[1] = d}
        /\ DOMAIN fc.filesystems_to_check \subseteq DOMAIN DISK_INFO
        /\ \A i \in 1..Len(fc.do_not_check_list) :
              fc.do_not_check_list[i][1] \in DOMAIN DISK_INFO
        /\ call[1] = "unmount" =>
              call[2] \in DOMAIN DISK_INFO /\ DISK_INFO[call[2]].Type # "Device"

\* The gate has returned for an inventory with a device that is mounted and
\* a partition that it unmounted and accepted: the device is still mounted
\* and on neither list.
C31_Witness ==
    /\ pc = "gate_done"
    /\ \E d \in DOMAIN DISK_INFO :
          /\ DISK_INFO[d].Type = "Device"
          /\ is_mounted(d)
          /\ d \notin DOMAIN fc.filesystems_to_check
    /\ \E d \in DOMAIN fc.filesystems_to_check :
          fc.filesystems_to_check[d].Remount /\ ~is_mounted(d)
    /\ fc.do_not_check_list = <<>>

(***************************************************************************)
(* Sequences of calls of check_internet_connection, filesystem_check and   *)
(* handle_filesystem_check_return_values on one SYSTEM_INFO.               *)
(***************************************************************************)
\* A further call is started only while the reason list is shorter than this.
MaxReasons == 2

\* Entries of the inventory of a session: <<Type, FileSystem, LVM partition>>.
SessionKinds == {<<"Device", "ext4", FALSE>>, <<"Partition", "ext4", FALSE>>}

Reasons == SYSTEM_INFO.DisableBootloaderOperationsBecause

Idle == pc = "idle" /\ Len(Reasons) < MaxReasons

SessionFrame == UNCHANGED <<DISK_INFO, OS_INFO, SYSTEM_INFO, root_fs, mounts, unmountFailed, env, removed, OPERATIONS>>

\* A call of check_internet_connection().
CallInternet ==
    /\ Idle
    /\ pc' = "net_ping"
    /\ idx' = 0
    /\ UNCHANGED <<loc, fc, arg, result, call, mounts0>>
    /\ SessionFrame

\* A call of filesystem_check(_type, manage_bootloader_function).
CallFilesystemCheck ==
    /\ Idle
    /\ \E type \in {"Quick", "Thorough"} :
          arg' = [type |-> type, manage_bootloader_function |-> ManageBootloader]
    /\ pc' = "gate_start"
    /\ idx' = 1
    /\ mounts0' = mounts
    /\ UNCHANGED <<loc, fc, result, call>>
    /\ SessionFrame

\* A call of handle_filesystem_check_return_values(exec_cmds, retval,
\* partition, manage_bootloader_function).
CallHandler ==
    /\ Idle
    /\ \E exec_cmds \in HandledCommands, retval \in HandledExitCodes :
          arg' = [exec_cmds |-> exec_cmds, retval |-> retval,
                  partition |-> PathName[1],
                  manage_bootloader_function |-> ManageBootloader]
    /\ pc' = "handle"
    /\ UNCHANGED <<idx, loc, fc, result, call, mounts0>>
    /\ SessionFrame

\* The running function returns to its caller; its locals are gone.
CallReturns ==
    /\ pc \in {"net_done", "check_done", "handle_done"}
    /\ pc' = "idle"
    /\ idx' = 0
    /\ loc' = NoLocals
    /\ fc' = NoGate
    /\ arg' = NoArg
    /\ result' = None
    /\ call' = NoCall
    /\ UNCHANGED mounts0
    /\ SessionFrame

\* An installed system before the first of the calls: the flag is false and
\* the reason list is empty.
InitSession ==
    /\ \E ks \in KeySets : \E kind \in [ks -> SessionKinds] :
          DISK_INFO = [p \in ks |->
                          Entry(kind[p][1], kind[p][2], UUIDName[Rank(p)],
                                kind[p][3], {AliasName})]
    /\ root_fs = PathName[1]
    /\ \E M \in SUBSET ((DOMAIN DISK_INFO) \ {root_fs}) :
          mounts = {<<root_fs, "/">>} \cup {<<p, PriorMountPoint(p)>> : p \in M}
    /\ mounts0 = mounts
    /\ env = {"ext4"}
    /\ OS_INFO = EmptyTable
    /\ SYSTEM_INFO = InitialSystemInfo(FALSE)
    /\ pc = "idle"
    /\ idx = 0
    /\ loc = NoLocals
    /\ result = None
    /\ call = NoCall
    /\ unmountFailed = FALSE
    /\ fc = NoGate
    /\ arg = NoArg
    /\ removed = None
    /\ OPERATIONS \in OperationLists

NextSession ==
    \/ CallInternet \/ InternetPing \/ InternetAsk
    \/ CallFilesystemCheck
    \/ GateStart \/ GateDevice \/ GateClassify \/ GateReturn
    \/ CheckBegin \/ CheckDisk \/ CheckEnd
    \/ CallHandler \/ HandleCall
    \/ CallReturns

SpecSession == InitSession /\ [][NextSession]_vars

\* list is the start of longer.
IsPrefix(list, longer) ==
    /\ Len(list) <= Len(longer)
    /\ \A i \in 1..Len(list) : longer[i] = list[i]

\* C32: over every sequence of calls of check_internet_connection,
\* filesystem_check and handle_filesystem_check_return_values that starts
\* with the flag false and the reason list empty, no step sets
\* DisableBootloaderOperations back to false, every step leaves the reason
\* list as it is or longer by reasons added at its end, and at every point
\* the flag is true exactly if the reason list is not empty.
C32_DisableFlagSticky ==
    /\ [][/\ SYSTEM_INFO.DisableBootloaderOperations =>
                SYSTEM_INFO'.DisableBootloaderOperations
          /\ IsPrefix(SYSTEM_INFO.DisableBootloaderOperationsBecause,
                      SYSTEM_INFO'.DisableBootloaderOperationsBecause)
         ]_vars
    /\ [](SYSTEM_INFO.DisableBootloaderOperations
             <=> SYSTEM_INFO.DisableBootloaderOperationsBecause # <<>>)

\* A call of filesystem_check is running after check_internet_connection
\* disabled the bootloader operations, and the handler has added the reason
\* of a failed check to the list: the flag is still true.
C32_Witness ==
    /\ pc = "check_loop"
    /\ SYSTEM_INFO.DisableBootloaderOperations
    /\ Len(Reasons) = 2
    /\ Reasons[1] = InternetReason
    /\ Reasons[2] = "Filesystem corruption was detected on " \o PathName[2]
====
